---- MODULE Spec2Model ----
(***************************************************************************)
(* A model of the core of the ETC traffic simulator (package etc_sim):     *)
(* the SimulationEngine tick loop, the Vehicle update (IDM, MOBIL, lane    *)
(* change, anomaly state machine), the spatial index, the ETC noise stage  *)
(* and the alert rule engine.                                              *)
(*                                                                         *)
(* Units.  The code computes with floats; the model computes with          *)
(* integers in fixed units:                                                *)
(*   length   1/180 m          (1 m    = U units)                          *)
(*   speed    1/180 m/s        (1 km/h = 50 units)                         *)
(*   accel    1/180 m/s^2                                                  *)
(*   time     1 s                                                          *)
(* Quotients are rounded down where the floats are not representable.      *)
(***************************************************************************)
EXTENDS Integers, Sequences, FiniteSets, TLC

VARIABLES
    config,              \* SimulationEngine.config (fixed during a run)
    pc,                  \* position of run() inside its loop body
    cursor,              \* index into active_vehicles of the per-vehicle loops
    current_time,        \* SimulationEngine.current_time
    vehicle_id_counter,  \* SimulationEngine.vehicle_id_counter
    spawn_schedule,      \* run(): spawn_schedule (sorted spawn times)
    spawn_idx,           \* run(): spawn_idx (0-based, as in the code)
    veh,                 \* id -> Vehicle object (every vehicle constructed)
    vehicles,            \* SimulationEngine.vehicles (ids, engine order)
    finished_vehicles,   \* SimulationEngine.finished_vehicles (ids)
    active_vehicles,     \* run(): active_vehicles of the tick (ids, by pos)
    blocked_lanes,       \* run(): blocked_lanes of the tick (lane -> positions)
    index,               \* SpatialIndex: _grid, _vehicles (ids) and _vehicle_cells
    anomaly_logs,        \* SimulationEngine.anomaly_logs
    transactions,        \* ETCAnomalyDetector.transactions
    noise_events,        \* SimulationEngine.etc_noise_events
    total_processed,     \* ETCNoiseSimulator._total_processed
    raw_count,           \* number of _process_etc_transaction calls per <<vehicle, gate>>
    rules,               \* AlertRuleEngine.rules (with _last_trigger_time)
    event_history,       \* AlertRuleEngine.event_history
    trace,               \* kinds of the records the current tick has appended, in order
    session,             \* SimulationSession of the websocket manager, with its tasks
    context,             \* the condition values of the AlertContext last given to a rule engine on its own
    detector,            \* ETCAnomalyDetector driven on its own: gate_stats, vehicle_last_gate, alert_history
    manager              \* WebSocketManager with several connections: sessions, and the session of each handle_session call

vars == <<config, pc, cursor, current_time, vehicle_id_counter, spawn_schedule,
          spawn_idx, veh, vehicles, finished_vehicles, active_vehicles,
          blocked_lanes, index, anomaly_logs, transactions, noise_events,
          total_processed, raw_count, rules, event_history, trace, session,
          context, detector, manager>>

engineVars == <<config, pc, cursor, current_time, vehicle_id_counter, spawn_schedule,
                spawn_idx, veh, vehicles, finished_vehicles, active_vehicles,
                blocked_lanes, index, anomaly_logs, transactions, noise_events,
                total_processed, raw_count, trace, session, context, detector,
                manager>>

-----------------------------------------------------------------------------
(* Units and small helpers *)

U == 36 * 5

KmH(x) == x * 50

\* a decimal given in tenths (35 stands for 3.5), in model units
Dec(x) == (x * U) \div 10

Max(a, b) == IF a >= b THEN a ELSE b

Min(a, b) == IF a <= b THEN a ELSE b

Abs(a) == IF a >= 0 THEN a ELSE -a

Clamp(lo, x, hi) == Max(lo, Min(hi, x))

\* Python's int(a / b) for b > 0: truncation toward zero
IntDiv(a, b) == IF a >= 0 THEN a \div b ELSE -((-a) \div b)

\* floor of the square root
ISqrt(n) == CHOOSE r \in 0..1000 : r * r <= n /\ (r + 1) * (r + 1) > n

Range(s) == {s[i] : i \in 1..Len(s)}

RECURSIVE SumSeq(_)
SumSeq(s) == IF s = <<>> THEN 0 ELSE s[1] + SumSeq(Tail(s))

RECURSIVE Concat(_)
Concat(ss) == IF ss = <<>> THEN <<>> ELSE ss[1] \o Concat(Tail(ss))

-----------------------------------------------------------------------------
(* Configuration: SimulationConfig *)

\* The configurations the engine is run with.  Lengths in km, times in s.
\* anomaly_ratio is kept as its sign only: 0 or negative (no vehicle is ever
\* flagged) or positive (the flag and the activation coin can come up either
\* way).
BaseConfig ==
    [road_length_km |-> 3, segment_length_km |-> 1, num_lanes |-> 2,
     total_vehicles |-> 2, simulation_dt |-> 2, max_simulation_time |-> 120,
     anomaly_ratio |-> 0, global_anomaly_start |-> 200,
     vehicle_safe_run_time |-> 200, forced_change_dist |-> 400,
     lane_change_gap |-> 25]

num_segments(c) == IntDiv(c.road_length_km, c.segment_length_km)

\* the configurations refused at construction: SimulationConfig is a
\* dataclass with no __post_init__, and SimulationEngine.__init__ stores the
\* configuration it is given without reading its values
Rejected(c) == FALSE

SegLen(c) == c.segment_length_km * 1000 * U

\* _init_etc_gates: one gate every 2 km, range(2, int(road_length), 2)
EtcGates(c) == {km \in 2..(c.road_length_km - 1) : km % 2 = 0}

-----------------------------------------------------------------------------
(* Vehicle types and driver styles *)

VEHICLE_TYPE_CONFIG(t) ==
    CASE t = "CAR"   -> [v0 |-> KmH(120), a_max |-> Dec(30), b_desired |-> Dec(35),
                         s0 |-> Dec(20), T10 |-> 15, length |-> Dec(45)]
      [] t = "TRUCK" -> [v0 |-> KmH(100), a_max |-> Dec(20), b_desired |-> Dec(25),
                         s0 |-> Dec(25), T10 |-> 18, length |-> Dec(120)]
      [] t = "BUS"   -> [v0 |-> KmH(90), a_max |-> Dec(18), b_desired |-> Dec(22),
                         s0 |-> Dec(22), T10 |-> 16, length |-> Dec(100)]

\* aggressiveness_range[0] of the style, in percent
DRIVER_STYLE_CONFIG(s) ==
    CASE s = "aggressive"   -> 110
      [] s = "conservative" -> 80
      [] s = "normal"       -> 95

-----------------------------------------------------------------------------
(* Vehicle: construction *)

NoVehicle == <<>>

\* Vehicle.__init__ with its random draws made explicit:
\* vtype (random.choices over the types), style (random.choices over the
\* styles), desired (the desired_speed drawn in _init_vehicle_type) and
\* potential (random.random() < anomaly_ratio).
NewVehicle(v_id, entry_time, lane, vtype, style, desired, potential) ==
    [id |-> v_id, lane |-> lane, pos |-> 0, speed |-> desired,
     vehicle_type |-> vtype, driver_style |-> style,
     lane_change_cooldown |-> 0, lane_changing |-> FALSE, lane_change_step |-> 0,
     lane_change_start_time |-> 0, lane_change_start_pos |-> 0,
     lane_change_start_lane |-> 0,
     lane_change_end_lane |-> 0, lane_changes |-> 0, lateral |-> 0,
     is_potential_anomaly |-> potential, anomaly_type |-> 0,
     anomaly_state |-> "normal", anomaly_timer |-> 0, cooldown_timer |-> 0,
     target_speed_override |-> 0, anomaly_trigger_time |-> -1,
     logs |-> <<>>, current_segment |-> 0, entry_time |-> entry_time,
     finished |-> FALSE, exit_time |-> -1, last_gates |-> {}]

-----------------------------------------------------------------------------
(* Vehicle: IDM car following *)

\* the staged braking of idm_calc_acceleration behind a stopped vehicle
\* (leader.anomaly_type == 1 and active), by the net gap s
StagedBraking(s, vv) ==
    IF s > 200 * U THEN Max(-Dec(15), -(vv \div 10))
    ELSE IF s > 100 * U THEN -Dec(15) - (Dec(25) * (200 * U - s)) \div (100 * U)
    ELSE IF s > 30 * U THEN -Dec(40) - (Dec(30) * (100 * U - s)) \div (70 * U)
    ELSE -Dec(70)

\* a / b and r * r for ratios kept in 1/1000
Ratio(a, b) == (a * 1000) \div b

SquareP(r) == (r * r) \div 1000

\* (v / v0) ** delta with delta = 4, in 1/1000
RatioV(vv, v0) == SquareP(SquareP(Ratio(vv, v0)))

\* (s_star / s) ** 2, in 1/1000; beyond 4 the result is clamped anyway
RatioS(s_star, s) ==
    IF Ratio(Abs(s_star), s) >= 4000 THEN 16000
    ELSE SquareP(Ratio(Abs(s_star), s))

\* s_star = s0 + v * T + v * delta_v / (2 * sqrt(a_max * b))
DesiredGap(cfg, a_max, vv, delta_v) ==
    cfg.s0 + (vv * cfg.T10) \div 10
      + (vv * delta_v) \div (2 * ISqrt(a_max * cfg.b_desired))

\* the emergency factor 1.2 and the clamp to [-7, 1.5 * a_max]
Emergency(accel, a_max, is_emergency) ==
    Clamp(-Dec(70), IF is_emergency THEN (accel * 12) \div 10 ELSE accel,
          (a_max * 15) \div 10)

\* the IDM branch of idm_calc_acceleration, by the net gap s
Following(cfg, a_max, vv, delta_v, s) ==
    Emergency((a_max * (1000 - RatioV(vv, cfg.v0)
                          - RatioS(DesiredGap(cfg, a_max, vv, delta_v), s))) \div 1000,
              a_max,
              2 * s < 3 * Max(vv, U \div 10) \/ delta_v > 3 * U)

\* the net gap s = max(dist - length / 2 - leader.length / 2, 0.5)
NetGap(v, L) ==
    Max(L.pos - v.pos - VEHICLE_TYPE_CONFIG(v.vehicle_type).length \div 2
          - VEHICLE_TYPE_CONFIG(L.vehicle_type).length \div 2, U \div 2)

\* Vehicle.idm_calc_acceleration; leader is <<>> (None) or <<vehicle>>
idm_calc_acceleration(v, leader, current_speed) ==
    IF leader = NoVehicle THEN VEHICLE_TYPE_CONFIG(v.vehicle_type).a_max
    ELSE IF leader[1].anomaly_type = 1 /\ leader[1].anomaly_state = "active"
    THEN StagedBraking(NetGap(v, leader[1]), current_speed)
    ELSE Following(VEHICLE_TYPE_CONFIG(v.vehicle_type),
                   (VEHICLE_TYPE_CONFIG(v.vehicle_type).a_max
                      * DRIVER_STYLE_CONFIG(v.driver_style)) \div 100,
                   current_speed, current_speed - leader[1].speed,
                   NetGap(v, leader[1]))

-----------------------------------------------------------------------------
(* Vehicle: MOBIL lane change decision *)

\* the loop of _find_leader / _find_leader_in_lane: the first vehicle of the
\* list at the minimal positive distance ahead in the lane
RECURSIVE LeaderScan(_, _, _, _)
LeaderScan(pos, lane, nearby, best) ==
    IF nearby = <<>> THEN best
    ELSE LET o == nearby[1]
             better == /\ o.lane = lane
                       /\ o.pos > pos
                       /\ (best = NoVehicle \/ o.pos - pos < best[1].pos - pos)
         IN LeaderScan(pos, lane, Tail(nearby), IF better THEN <<o>> ELSE best)

find_leader_in_lane(v, lane, vehicles_nearby) ==
    LeaderScan(v.pos, lane, vehicles_nearby, NoVehicle)

\* variant: the leader looked up in the neighbouring lane
find_leader_beside(v, vehicles_nearby) ==
    find_leader_in_lane(v, 1 - v.lane, vehicles_nearby)

find_leader(v, vehicles_nearby) == find_leader_in_lane(v, v.lane, vehicles_nearby)

\* Vehicle._can_change_to; blocked maps a lane to the positions of the stopped
\* vehicles in it
can_change_to(v, target_lane, vehicles_nearby, blocked, c) ==
    /\ target_lane \in DOMAIN blocked =>
          \A p \in blocked[target_lane] : ~(Abs(p - v.pos) < 100 * U)
    /\ \A i \in 1..Len(vehicles_nearby) :
          ~(/\ vehicles_nearby[i].lane = target_lane
            /\ Abs(vehicles_nearby[i].pos - v.pos) < c.lane_change_gap * U)

\* Vehicle._calc_lane_gain, given the leader found in the target lane
LaneGain(v, leader, current_leader) ==
    IF leader = NoVehicle THEN Dec(10)
    ELSE idm_calc_acceleration(v, leader, v.speed)
           - (IF current_leader # NoVehicle
              THEN idm_calc_acceleration(v, current_leader, v.speed)
              ELSE VEHICLE_TYPE_CONFIG(v.vehicle_type).a_max)

\* Vehicle._calc_lane_gain
calc_lane_gain(v, target_lane, vehicles_nearby, current_leader) ==
    LaneGain(v, find_leader_in_lane(v, target_lane, vehicles_nearby), current_leader)

\* variant: the range test of the candidate lane left out
AnyLane(lane, c) == TRUE

\* the range test 0 <= candidate < num_lanes of both lane change branches
InRoad(lane, c) == 0 <= lane /\ lane < c.num_lanes

\* the target of the decision (None, None); never read as a lane
NoLane == -1

\* a candidate lane passes the range test and _can_change_to
Feasible(v, cand, vehicles_nearby, blocked, c) ==
    InRoad(cand, c) /\ can_change_to(v, cand, vehicles_nearby, blocked, c)

\* Vehicle._try_forced_lane_change: the first feasible of lane - 1, lane + 1
try_forced_lane_change(v, vehicles_nearby, blocked, c) ==
    IF Feasible(v, v.lane - 1, vehicles_nearby, blocked, c)
    THEN [target |-> v.lane - 1, reason |-> "forced"]
    ELSE IF Feasible(v, v.lane + 1, vehicles_nearby, blocked, c)
    THEN [target |-> v.lane + 1, reason |-> "forced"]
    ELSE [target |-> NoLane, reason |-> "none"]

\* the candidate loop of mobil_decision over lane - 1, lane + 1: a candidate
\* wins when its gain exceeds the best gain so far by more than 0.1
BestCandidate(lane, first, second) ==
    IF second THEN [target |-> lane + 1, reason |-> "free"]
    ELSE IF first THEN [target |-> lane - 1, reason |-> "free"]
    ELSE [target |-> NoLane, reason |-> "none"]

CandidateLoop(lane, ok_left, gain_left, ok_right, gain_right, current_gain) ==
    BestCandidate(lane,
                  ok_left /\ gain_left > current_gain + Dec(1),
                  ok_right /\ gain_right >
                     (IF ok_left /\ gain_left > current_gain + Dec(1)
                      THEN gain_left ELSE current_gain) + Dec(1))

\* the free branch of mobil_decision
free_lane_change(v, vehicles_nearby, blocked, c, leader) ==
    CandidateLoop(v.lane,
                  Feasible(v, v.lane - 1, vehicles_nearby, blocked, c),
                  calc_lane_gain(v, v.lane - 1, vehicles_nearby, leader),
                  Feasible(v, v.lane + 1, vehicles_nearby, blocked, c),
                  calc_lane_gain(v, v.lane + 1, vehicles_nearby, leader),
                  calc_lane_gain(v, v.lane, vehicles_nearby, leader))

\* the branch of mobil_decision taken: forced behind a stopped vehicle
ForcedCase(v, leader, c) ==
    /\ leader # NoVehicle
    /\ leader[1].anomaly_type = 1
    /\ leader[1].pos - v.pos < c.forced_change_dist * U

\* Vehicle.mobil_decision, given the leader found in the own lane
Decision(v, leader, vehicles_nearby, blocked, c) ==
    IF ForcedCase(v, leader, c)
    THEN try_forced_lane_change(v, vehicles_nearby, blocked, c)
    ELSE free_lane_change(v, vehicles_nearby, blocked, c, leader)

\* Vehicle.mobil_decision
mobil_decision(v, vehicles_nearby, blocked, c) ==
    Decision(v, find_leader(v, vehicles_nearby), vehicles_nearby, blocked, c)

-----------------------------------------------------------------------------
(* Vehicle: the lane change itself *)

LANE_CHANGE_STEPS == 5

LANE_CHANGE_COOLDOWN == 5

\* Vehicle.start_lane_change
start_lane_change(v, target_lane, time) ==
    IF v.lane_change_cooldown > 0 \/ v.lane_changing THEN v
    ELSE [v EXCEPT !.lane_changing = TRUE, !.lane_change_step = 0,
                   !.lane_change_start_time = time,
                   !.lane_change_start_pos = v.pos,
                   !.lane_change_start_lane = v.lane,
                   !.lane_change_end_lane = target_lane,
                   !.lane_changes = @ + 1]

\* config.lane_width, 3.5 m
LANE_WIDTH == 630

\* 1000 * (1 - cos(pi * step / LANE_CHANGE_STEPS)), rounded
OneMinusCos(step) == <<191, 691, 1309, 1809, 2000>>[step]

\* lane_diff * lane_width / 2
HalfLane(v) ==
    ((v.lane_change_end_lane - v.lane_change_start_lane) * LANE_WIDTH) \div 2

\* the lateral offset update_lane_change computes at a step
Lateral(v, step) == (HalfLane(v) * OneMinusCos(step)) \div 1000

\* variant: the lane change ends one step early
CompleteLaneChangeEarly(v) ==
    IF v.lane_change_step >= LANE_CHANGE_STEPS - 1
    THEN [v EXCEPT !.lane = v.lane_change_end_lane, !.lane_changing = FALSE,
                   !.lane_change_cooldown = LANE_CHANGE_COOLDOWN]
    ELSE v

\* variant: a cooldown of 3 s
CompleteWithShortCooldown(v) ==
    IF v.lane_change_step >= LANE_CHANGE_STEPS
    THEN [v EXCEPT !.lane = v.lane_change_end_lane, !.lane_changing = FALSE,
                   !.lane_change_cooldown = 3,
                   !.lateral = HalfLane(v)]
    ELSE v

\* the end of update_lane_change once step >= LANE_CHANGE_STEPS
CompleteLaneChange(v) ==
    IF v.lane_change_step >= LANE_CHANGE_STEPS
    THEN [v EXCEPT !.lane = v.lane_change_end_lane, !.lane_changing = FALSE,
                   !.lane_change_cooldown = LANE_CHANGE_COOLDOWN,
                   !.lateral = HalfLane(v)]
    ELSE v

\* Vehicle.update_lane_change
update_lane_change(v, dt) ==
    IF ~v.lane_changing THEN v
    ELSE CompleteLaneChange(
           [v EXCEPT !.lane_change_step = @ + 1,
                     !.lateral = Lateral(v, v.lane_change_step + 1),
                     !.pos = v.lane_change_start_pos
                               + (v.speed * dt * (v.lane_change_step + 1))
                                   \div LANE_CHANGE_STEPS])

-----------------------------------------------------------------------------
(* Vehicle: segment bookkeeping and the anomaly state machine *)

\* variant: the time of leaving written to 'in'
LeaveAsEntry(entry, time_now) == [entry EXCEPT !.in = time_now]

\* self.logs[self.current_segment]['out'] = time_now
Leave(entry, time_now) == [entry EXCEPT !.out = time_now]

\* Vehicle.record_time; logs maps a segment to its [in, out] times
record_time(v, time_now, seg_idx, c) ==
    IF seg_idx >= num_segments(c)
    THEN [v EXCEPT !.finished = TRUE, !.exit_time = time_now]
    ELSE LET old == v.logs
             closed == IF seg_idx # v.current_segment /\ v.current_segment \in DOMAIN old
                       THEN [old EXCEPT ![v.current_segment] = Leave(@, time_now)]
                       ELSE old
             logs2 == [s \in DOMAIN closed \cup {seg_idx} |->
                         IF s \in DOMAIN closed
                         THEN IF s = seg_idx /\ seg_idx = v.current_segment
                              THEN [closed[s] EXCEPT !.out = time_now]
                              ELSE closed[s]
                         ELSE [in |-> time_now, out |-> time_now]]
         IN [v EXCEPT !.logs = logs2, !.current_segment = seg_idx]

\* variant: the guards on the flag, the clock and the time on the road left out
AlwaysEligible(v, now, c) ==
    v.anomaly_state = "normal" /\ v.anomaly_type \in {0, 2, 3}

\* the guards of trigger_anomaly in front of its first random draw
AnomalyEligible(v, now, c) ==
    /\ v.is_potential_anomaly
    /\ v.anomaly_state = "normal"
    /\ now >= c.global_anomaly_start
    /\ now - v.entry_time >= c.vehicle_safe_run_time
    /\ v.anomaly_type \in {0, 2, 3}

ANOMALY_TIMER(t) == CASE t = 1 -> 999999 [] t = 2 -> 10 [] OTHER -> 20

COOLING_TICKS == 1000

\* variant: an activation that returns no log
NoLog(v, type, now, segment_idx, override) == <<>>

\* the dict trigger_anomaly returns on activation
AnomalyLog(v, type, now, segment_idx, override) ==
    <<[id |-> v.id, type |-> type, time |-> now, segment |-> segment_idx,
       min_speed |-> override]>>

\* variant: the cooling state left one tick early
CooledDownEarly(timer) == timer <= 1

\* "if self.cooldown_timer <= 0" of trigger_anomaly
CooledDown(timer) == timer <= 0

\* Vehicle.trigger_anomaly.  The draws: coin (the random() < probability
\* test), kind (the type chosen by r), target (kmh_to_ms(uniform(0, 40))).
\* The result is the vehicle after the call and the returned log (<<>> for None).
trigger_anomaly(v, now, segment_idx, c, coin, kind, target) ==
    IF ~v.is_potential_anomaly \/ v.anomaly_state = "active"
    THEN [v |-> v, log |-> <<>>]
    ELSE IF v.anomaly_state = "cooling"
    THEN LET t == v.cooldown_timer - 1
         IN [v |-> [v EXCEPT !.cooldown_timer = t,
                             !.anomaly_state = IF CooledDown(t) THEN "normal" ELSE "cooling"],
             log |-> <<>>]
    ELSE IF ~AnomalyEligible(v, now, c) \/ ~coin
    THEN [v |-> v, log |-> <<>>]
    ELSE LET type == IF v.anomaly_type = 0 THEN kind ELSE v.anomaly_type
             override == IF type = 1 THEN 0 ELSE target
             w == [v EXCEPT !.anomaly_type = type, !.anomaly_state = "active",
                            !.anomaly_trigger_time = now,
                            !.target_speed_override = override,
                            !.anomaly_timer = ANOMALY_TIMER(type)]
         IN [v |-> w, log |-> AnomalyLog(v, type, now, segment_idx, override)]

-----------------------------------------------------------------------------
(* Vehicle: update *)

\* the speed ceiling of update: v0 * 1.1
SpeedCap(v) == (VEHICLE_TYPE_CONFIG(v.vehicle_type).v0 * 11) \div 10

\* the change of speed accel * dt of Vehicle.update, given the IDM
\* acceleration; an active anomaly overrides the IDM value
SpeedChange(v, idm_accel, dt) ==
    IF v.anomaly_state = "active"
    THEN IF v.anomaly_type = 1
         THEN IF v.speed > U
              THEN Max(-Dec(70) * dt, -(v.speed \div 2))
              ELSE -v.speed
         ELSE Clamp(-Dec(40) * dt, v.target_speed_override - v.speed, Dec(30) * dt)
    ELSE idm_accel * dt

\* the start of update: the lane change cooldown and the anomaly timer run
\* down; an expired anomaly other than a stop turns to cooling
TickTimers(v, dt) ==
    IF v.anomaly_state = "active"
    THEN IF v.anomaly_timer - dt <= 0 /\ v.anomaly_type # 1
         THEN [v EXCEPT !.lane_change_cooldown = @ - dt,
                        !.anomaly_timer = @ - dt,
                        !.anomaly_state = "cooling",
                        !.cooldown_timer = COOLING_TICKS]
         ELSE [v EXCEPT !.lane_change_cooldown = @ - dt, !.anomaly_timer = @ - dt]
    ELSE [v EXCEPT !.lane_change_cooldown = @ - dt]

\* want_change of update: too close to the leader, or a stopped vehicle
\* within 200 m
WantChange(v, leader) ==
    /\ ~v.lane_changing
    /\ leader # NoVehicle
    /\ \/ leader[1].pos - v.pos < v.speed * 2 + 15 * U
       \/ leader[1].anomaly_type = 1 /\ leader[1].pos - v.pos < 200 * U

\* "if target_lane is not None": the decision (None, None) carries the
\* reason "none"
StartIfTarget(v, decision, now) ==
    IF decision.reason # "none" THEN start_lane_change(v, decision.target, now)
    ELSE v

\* the lane change part of update
DecideLaneChange(v, leader, vehicles_nearby, blocked, now, c) ==
    IF WantChange(v, leader) /\ v.lane_change_cooldown <= 0
    THEN StartIfTarget(v, mobil_decision(v, vehicles_nearby, blocked, c), now)
    ELSE v

\* the end of update: the new speed, and the new position unless the
\* vehicle is changing lane
Moved(v, speed, dt) ==
    [v EXCEPT !.speed = speed,
              !.pos = IF v.lane_changing THEN @ ELSE @ + speed * dt]

Accelerate(v, leader, dt) ==
    Moved(v,
          Clamp(0,
                v.speed + SpeedChange(v, idm_calc_acceleration(v, leader, v.speed), dt),
                SpeedCap(v)),
          dt)

UpdateBehind(v, leader, dt, vehicles_nearby, blocked, now, c) ==
    Accelerate(update_lane_change(
                 DecideLaneChange(v, leader, vehicles_nearby, blocked, now, c), dt),
               leader, dt)

\* Vehicle.update
update(v, dt, vehicles_nearby, blocked, now, c) ==
    IF v.finished THEN v
    ELSE UpdateBehind(TickTimers(v, dt),
                      IF ~v.lane_changing THEN find_leader(v, vehicles_nearby)
                      ELSE NoVehicle,
                      dt, vehicles_nearby, blocked, now, c)

-----------------------------------------------------------------------------
(* SpatialIndex *)

CELL_SIZE == 100

RANGE_CELLS == 3

num_cells(c) == (c.road_length_km * 1000) \div CELL_SIZE + 1

\* SpatialIndex._get_cell_idx
get_cell_idx(pos, c) == Max(0, Min(pos \div (CELL_SIZE * U), num_cells(c) - 1))

\* the key (lane, cell_idx) of a vehicle
IndexKey(v, c) == <<v.lane, get_cell_idx(v.pos, c)>>

\* SpatialIndex.__init__ and SpatialIndex.clear: _grid (key -> list of ids,
\* an absent key standing for the empty list), _vehicles (the ids it holds
\* an object for) and _vehicle_cells (id -> key)
EmptyIndex == [grid |-> <<>>, vehicles |-> {}, cells |-> <<>>]

\* self._grid[key], self._grid.get(key, [])
Cell(grid, key) == IF key \in DOMAIN grid THEN grid[key] ELSE <<>>

\* the grid with the list of key replaced
SetCell(grid, key, list) ==
    IF list = <<>> THEN [k \in DOMAIN grid \ {key} |-> grid[k]]
    ELSE [k \in DOMAIN grid \cup {key} |-> IF k = key THEN list ELSE grid[k]]

\* list.remove(id): the first occurrence goes
RECURSIVE RemoveFirst(_, _)
RemoveFirst(list, id) ==
    IF list = <<>> THEN <<>>
    ELSE IF list[1] = id THEN Tail(list)
    ELSE <<list[1]>> \o RemoveFirst(Tail(list), id)

\* "if vehicle_id in self._grid[key]: self._grid[key].remove(vehicle_id)"
Dropped(grid, key, id) == SetCell(grid, key, RemoveFirst(Cell(grid, key), id))

\* _vehicle_cells[id] = key
Recorded(cells, id, key) ==
    [i \in DOMAIN cells \cup {id} |-> IF i = id THEN key ELSE cells[i]]

\* SpatialIndex.add_vehicle
add_vehicle(idx, v, c) ==
    [grid |-> SetCell(idx.grid, IndexKey(v, c),
                      Append(Cell(idx.grid, IndexKey(v, c)), v.id)),
     vehicles |-> idx.vehicles \cup {v.id},
     cells |-> Recorded(idx.cells, v.id, IndexKey(v, c))]

\* SpatialIndex.remove_vehicle
remove_vehicle(idx, vehicle_id) ==
    IF vehicle_id \notin DOMAIN idx.cells THEN idx
    ELSE [grid |-> Dropped(idx.grid, idx.cells[vehicle_id], vehicle_id),
          vehicles |-> idx.vehicles \ {vehicle_id},
          cells |-> [i \in DOMAIN idx.cells \ {vehicle_id} |-> idx.cells[i]]]

\* SpatialIndex.update_vehicle
update_vehicle(idx, v, c) ==
    IF v.id \in DOMAIN idx.cells
    THEN IF idx.cells[v.id] # IndexKey(v, c)
         THEN [grid |-> SetCell(Dropped(idx.grid, idx.cells[v.id], v.id),
                                IndexKey(v, c),
                                Append(Cell(Dropped(idx.grid, idx.cells[v.id], v.id),
                                            IndexKey(v, c)),
                                       v.id)),
               vehicles |-> idx.vehicles \cup {v.id},
               cells |-> Recorded(idx.cells, v.id, IndexKey(v, c))]
         ELSE [idx EXCEPT !.vehicles = @ \cup {v.id}]
    ELSE add_vehicle(idx, v, c)

\* SpatialIndex.rebuild over the vehicles ids (in the order given)
RECURSIVE rebuild(_, _, _)
rebuild(ids, vs, c) ==
    IF ids = <<>> THEN EmptyIndex
    ELSE LET rest == rebuild(SubSeq(ids, 1, Len(ids) - 1), vs, c)
             v == vs[ids[Len(ids)]]
         IN IF v.finished THEN rest ELSE add_vehicle(rest, v, c)

\* the vehicles of the ids found
Objects(found, vs) == [k \in 1..Len(found) |-> vs[found[k]]]

\* variant: the vehicle itself is not skipped
InCellWithSelf(idx, lane, cell, self, c) ==
    IF 0 <= cell /\ cell < num_cells(c)
    THEN SelectSeq(Cell(idx.grid, <<lane, cell>>), LAMBDA vid : vid \in idx.vehicles)
    ELSE <<>>

\* the ids get_nearby_vehicles takes from one cell of the grid: not the
\* vehicle itself, and only ids _vehicles holds an object for
InCell(idx, lane, cell, self, c) ==
    IF 0 <= cell /\ cell < num_cells(c)
    THEN SelectSeq(Cell(idx.grid, <<lane, cell>>),
                   LAMBDA vid : vid # self /\ vid \in idx.vehicles)
    ELSE <<>>

\* SpatialIndex.get_nearby_vehicles: lanes in order, then cell offsets in
\* order, then the cell's list
get_nearby_vehicles(idx, v, vs, range_cells, c) ==
    Objects(Concat([j \in 1..(c.num_lanes * (2 * range_cells + 1)) |->
                      InCell(idx, (j - 1) \div (2 * range_cells + 1),
                             get_cell_idx(v.pos, c)
                               + ((j - 1) % (2 * range_cells + 1)) - range_cells,
                             v.id, c)]),
            vs)

-----------------------------------------------------------------------------
(* ETCNoiseSimulator *)

\* DuplicateReadInjector.inject: dup_count copies; copy i > 0 is flagged
RECURSIVE Duplicates(_, _, _)
Duplicates(txn, i, dup_count) ==
    IF i >= dup_count THEN <<>>
    ELSE <<[txn EXCEPT !.is_duplicate = (i > 0), !.copy = i]>>
           \o Duplicates(txn, i + 1, dup_count)

\* variant: an injector that returns the original beside the rewritten copy
MarkAndKeep(txns, field) ==
    txns \o [i \in 1..Len(txns) |-> [txns[i] EXCEPT ![field] = TRUE]]

\* the loop body of process for one firing injector that keeps the count:
\* every current transaction is rewritten and yields one event
MarkAll(txns, field) == [i \in 1..Len(txns) |-> [txns[i] EXCEPT ![field] = TRUE]]

EventsFor(txns, type) ==
    [i \in 1..Len(txns) |->
        [type |-> type, vehicle_id |-> txns[i].vehicle_id, gate_id |-> txns[i].gate_id]]

\* ETCNoiseSimulator.process.  coins holds the outcome of should_inject of
\* the four injectors, in their order, and the dup_count drawn by the
\* duplicate injector.  The timestamp shifts of the delay and drift injectors
\* are recorded as marks on the transaction.
process(txn, coins) ==
    IF coins.missed
    THEN [out |-> <<>>, events |-> EventsFor(<<txn>>, "missed_read")]
    ELSE
      LET t1 == IF coins.duplicate THEN Duplicates(txn, 0, coins.dup_count) ELSE <<txn>>
          e1 == IF coins.duplicate THEN EventsFor(<<txn>>, "duplicate_read") ELSE <<>>
          t2 == IF coins.delayed THEN MarkAll(t1, "delayed") ELSE t1
          e2 == IF coins.delayed THEN EventsFor(t1, "delayed_upload") ELSE <<>>
          t3 == IF coins.drift THEN MarkAll(t2, "drifted") ELSE t2
          e3 == IF coins.drift THEN EventsFor(t2, "clock_drift") ELSE <<>>
      IN [out |-> IF t3 # <<>> THEN t3 ELSE <<txn>>, events |-> e1 \o e2 \o e3]

DupCounts == {2, 3}

NoiseCoins ==
    {[missed |-> TRUE, duplicate |-> FALSE, dup_count |-> 2,
      delayed |-> FALSE, drift |-> FALSE]}
    \cup [missed : {FALSE}, duplicate : BOOLEAN, dup_count : DupCounts,
          delayed : BOOLEAN, drift : BOOLEAN]

\* the counters of get_statistics, read off the recorded events
CountType(events, type) == Len(SelectSeq(events, LAMBDA e : e.type = type))

-----------------------------------------------------------------------------
(* ETCAnomalyDetector.  Timestamps and travel times are in tenths of a
   second where the detector is driven on its own. *)

\* a time of the clock (s) as a timestamp in tenths of a second
Ds(t) == 10 * t

TT_OUTLIER_SIGMA == 2

CONSECUTIVE_THRESHOLD == 3

\* ETCAnomalyDetector.__init__ (active_alerts grows with alert_history and is
\* left out; transactions is the variable of that name)
NewDetector == [gate_stats |-> <<>>, vehicle_last_gate |-> <<>>, alert_history |-> <<>>]

\* GateStatistics of a gate just registered.  avg_travel_time and
\* std_travel_time are read only right after they are computed from
\* recent_travel_times, and are computed where they are read.
NewGateStatistics ==
    [recent_travel_times |-> <<>>, recent_speeds |-> <<>>, outlier_count |-> 0,
     consecutive_outliers |-> 0]

\* deque(maxlen = n).append
Pushed(buffer, x, maxlen) ==
    IF Len(buffer) >= maxlen THEN Append(Tail(buffer), x) ELSE Append(buffer, x)

\* ETCAnomalyDetector.register_gate
register_gate(d, gate_id) ==
    IF gate_id \in DOMAIN d.gate_stats THEN d
    ELSE [d EXCEPT !.gate_stats =
            [g \in DOMAIN d.gate_stats \cup {gate_id} |->
                IF g = gate_id THEN NewGateStatistics ELSE d.gate_stats[g]]]

\* n * n * variance of the list tt of n travel times: n * sum(t^2) - sum(t)^2
ScaledVariance(tt) ==
    Len(tt) * SumSeq([i \in 1..Len(tt) |-> tt[i] * tt[i]]) - SumSeq(tt) * SumSeq(tt)

\* "if gate_stat.std_travel_time < 0.1: return None": the standard deviation
\* is below a tenth of a second; a variance of 0 gives the deviation 1.0
StdTooSmall(tt) == ScaledVariance(tt) > 0 /\ ScaledVariance(tt) < Len(tt) * Len(tt)

\* z_score > TT_OUTLIER_SIGMA, with std = sqrt(variance), or 1.0 s for a
\* variance of 0
ZScoreHigh(tt, travel_time) ==
    /\ Len(tt) * travel_time - SumSeq(tt) > 0
    /\ (Len(tt) * travel_time - SumSeq(tt)) * (Len(tt) * travel_time - SumSeq(tt))
          > TT_OUTLIER_SIGMA * TT_OUTLIER_SIGMA
              * (IF ScaledVariance(tt) > 0 THEN ScaledVariance(tt)
                 ELSE Ds(1) * Ds(1) * Len(tt) * Len(tt))

\* travel_time > avg_travel_time * TT_OUTLIER_RATIO (1.5)
RatioHigh(tt, travel_time) == 2 * travel_time * Len(tt) > 3 * SumSeq(tt)

\* is_outlier of _check_travel_time_outlier
IsOutlier(tt, travel_time) == ZScoreHigh(tt, travel_time) \/ RatioHigh(tt, travel_time)

\* the AnomalyAlert objects the detector returns
Alert(type, severity, gate_id, timestamp) ==
    [alert_type |-> type, severity |-> severity, gate_id |-> gate_id,
     timestamp |-> timestamp]

\* "if gate_stat.consecutive_outliers >= self.CONSECUTIVE_THRESHOLD"
StreakReached(consecutive_outliers) == consecutive_outliers >= CONSECUTIVE_THRESHOLD

\* ETCAnomalyDetector._check_travel_time_outlier: the gate statistics after
\* the call and the alert returned (<<>> for None)
check_travel_time_outlier(gs, travel_time, txn) ==
    IF StdTooSmall(gs.recent_travel_times) THEN [gs |-> gs, alert |-> <<>>]
    ELSE IF IsOutlier(gs.recent_travel_times, travel_time)
    THEN [gs |-> [gs EXCEPT !.outlier_count = @ + 1, !.consecutive_outliers = @ + 1],
          alert |-> IF StreakReached(gs.consecutive_outliers + 1)
                    THEN <<Alert("congestion",
                                 IF gs.consecutive_outliers + 1 >= 5 THEN "high"
                                 ELSE "medium",
                                 txn.gate_id, txn.timestamp)>>
                    ELSE <<>>]
    ELSE [gs |-> [gs EXCEPT !.consecutive_outliers = 0], alert |-> <<>>]

\* ETCAnomalyDetector._check_speed_anomaly (SPEED_ALERT_THRESHOLD 30 km/h)
check_speed_anomaly(gs, txn) ==
    IF /\ txn.speed < KmH(30)
       /\ Len(gs.recent_speeds) >= 3
       /\ \A i \in (Len(gs.recent_speeds) - 2)..Len(gs.recent_speeds) :
             gs.recent_speeds[i] < KmH(30)
    THEN <<Alert("slow_down", "low", txn.gate_id, txn.timestamp)>>
    ELSE <<>>

\* the tests of record_transaction in front of the append to
\* recent_travel_times
HasTravelTime(d, txn) ==
    /\ txn.vehicle_id \in DOMAIN d.vehicle_last_gate
    /\ txn.timestamp - d.vehicle_last_gate[txn.vehicle_id][2] > 0
    /\ d.vehicle_last_gate[txn.vehicle_id][1] \in DOMAIN d.gate_stats

\* record_transaction up to the travel time check: the gate statistics with
\* the speed and the travel time appended, and the alert of the check
TravelTimeStage(gs, has_travel_time, travel_time, txn) ==
    IF ~has_travel_time THEN [gs |-> gs, alert |-> <<>>]
    ELSE IF Len(gs.recent_travel_times) + 1 < 5
    THEN [gs |-> [gs EXCEPT !.recent_travel_times = Pushed(@, travel_time, 50)],
          alert |-> <<>>]
    ELSE check_travel_time_outlier(
           [gs EXCEPT !.recent_travel_times = Pushed(@, travel_time, 50)],
           travel_time, txn)

\* the end of record_transaction: vehicle_last_gate, the speed check when no
\* alert has been found, the alert lists
AfterChecks(d, txn, staged) ==
    [d |-> [d EXCEPT
              !.gate_stats = [@ EXCEPT ![txn.gate_id] = staged.gs],
              !.vehicle_last_gate =
                 [v \in DOMAIN @ \cup {txn.vehicle_id} |->
                     IF v = txn.vehicle_id THEN <<txn.gate_id, txn.timestamp>>
                     ELSE @[v]],
              !.alert_history =
                 @ \o (IF staged.alert # <<>> THEN staged.alert
                       ELSE check_speed_anomaly(staged.gs, txn))],
     alert |-> IF staged.alert # <<>> THEN staged.alert
               ELSE check_speed_anomaly(staged.gs, txn)]

\* ETCAnomalyDetector.record_transaction on a detector that has the gate:
\* the detector after the call and the alert returned
RecordOnGate(d, txn) ==
    AfterChecks(d, txn,
              TravelTimeStage(
                 [d.gate_stats[txn.gate_id] EXCEPT
                     !.recent_speeds = Pushed(@, txn.speed, 50)],
                 HasTravelTime(d, txn),
                 IF txn.vehicle_id \in DOMAIN d.vehicle_last_gate
                 THEN txn.timestamp - d.vehicle_last_gate[txn.vehicle_id][2]
                 ELSE 0,
                 txn))

\* ETCAnomalyDetector.record_transaction
record_transaction(d, txn) == RecordOnGate(register_gate(d, txn.gate_id), txn)

\* the loop of _process_etc_transaction over the noisy transactions
RECURSIVE RecordAll(_, _)
RecordAll(d, txns) ==
    IF txns = <<>> THEN d
    ELSE RecordAll(record_transaction(d, txns[1]).d, Tail(txns))

-----------------------------------------------------------------------------
(* Alert rules *)

\* create_default_rules.  The rule names of the source are
\*   congestion = 拥堵检测, suspected_incident = 疑似事故,
\*   slow_traffic = 缓行预警, oscillation = 交通震荡预警,
\*   severe_queue = 严重排队, bad_weather = 恶劣天气低速预警,
\*   etc_fault = ETC设备异常
\* A condition is [type, p, n]: its threshold and its minimal sample count.
Cond(type, p, n) == [type |-> type, p |-> p, n |-> n]

AlertRule(name, conditions, logic, cooldown_s) ==
    [name |-> name, conditions |-> conditions, logic |-> logic,
     cooldown_s |-> cooldown_s, enabled |-> TRUE, last_trigger_time |-> 0]

create_default_rules ==
    << AlertRule("congestion",
                 <<Cond("speed_below_threshold", 40, 3), Cond("travel_time_outlier", 2, 5)>>,
                 "AND", 60),
       AlertRule("suspected_incident",
                 <<Cond("flow_imbalance", 30, 5), Cond("consecutive_alerts", 5, 0)>>,
                 "OR", 120),
       AlertRule("slow_traffic", <<Cond("speed_below_threshold", 60, 5)>>, "AND", 30),
       AlertRule("oscillation", <<Cond("speed_std_high", 20, 5)>>, "AND", 45),
       AlertRule("severe_queue", <<Cond("queue_length_exceeds", 800, 0)>>, "AND", 90),
       AlertRule("bad_weather",
                 <<Cond("weather_condition", 0, 0), Cond("speed_below_threshold", 50, 3)>>,
                 "AND", 60),
       AlertRule("etc_fault", <<Cond("high_missed_read_rate", 15, 0)>>, "AND", 300) >>

\* variant: the cooldown test left out
CooldownIgnored(r, now) == TRUE

\* the cooldown test of AlertRule.evaluate
CooldownElapsed(r, now) == ~(now - r.last_trigger_time < r.cooldown_s)

\* the combination of the condition values by the rule's logic
Triggered(r, vals) ==
    IF r.logic = "OR" THEN \E i \in 1..Len(vals) : vals[i]
    ELSE \A i \in 1..Len(vals) : vals[i]

\* the fields of AlertContext
ContextAttributes ==
    {"current_time", "gate_stats", "recent_transactions", "active_incidents",
     "vehicle_speeds", "vehicle_positions", "vehicle_anomaly_states",
     "vehicle_lanes", "noise_stats", "weather_type", "queue_lengths",
     "segment_avg_speeds", "alert_history", "recent_alert_events"}

\* what OccupancyHigh.evaluate reads of the context
OccupancyReads == {"segment_vehicles", "segment_lengths"}

\* the evaluation of the condition raises (AttributeError on the context)
Raising(cond) ==
    cond.type = "occupancy_high" /\ ~(OccupancyReads \subseteq ContextAttributes)

\* all() stops at the first false value, any() at the first true one
ShortCircuits(r, val) == IF r.logic = "OR" THEN val ELSE ~val

\* the generator of all()/any() reaches a condition that raises: nothing in
\* AlertRule.evaluate catches it
Raises(r, vals) ==
    \E k \in 1..Len(r.conditions) :
       /\ Raising(r.conditions[k])
       /\ \A j \in 1..(k - 1) :
             ~Raising(r.conditions[j]) /\ ~ShortCircuits(r, vals[j])

\* AlertRule.evaluate reaches its conditions
Evaluated(r, now) == r.enabled /\ r.conditions # <<>> /\ CooldownElapsed(r, now)

\* AlertRule.evaluate: the rule after the call, the event (<<>> for None) and
\* whether the call ended by an exception; vals are the values of the rule's
\* conditions in the context
evaluate(r, now, vals) ==
    IF Evaluated(r, now) /\ Raises(r, vals)
    THEN [rule |-> r, events |-> <<>>, raised |-> TRUE]
    ELSE IF Evaluated(r, now) /\ Triggered(r, vals)
    THEN [rule |-> [r EXCEPT !.last_trigger_time = now],
          events |-> <<[rule_name |-> r.name, timestamp |-> now]>>,
          raised |-> FALSE]
    ELSE [rule |-> r, events |-> <<>>, raised |-> FALSE]

\* AlertRuleEngine.evaluate_all: the rules after the call and the events of
\* the step, in rule order; vals[i] are the condition values of rule i.  A
\* rule whose evaluate raised is logged and adds no event.
evaluate_all(rs, now, vals) ==
    LET res == [i \in 1..Len(rs) |-> evaluate(rs[i], now, vals[i])]
    IN [rules |-> [i \in 1..Len(rs) |-> res[i].rule],
        events |-> Concat([i \in 1..Len(rs) |-> res[i].events])]

-----------------------------------------------------------------------------
(* The alert context the engine builds, and the condition values in it *)

\* GateStatistics.recent_speeds of a gate: the speeds of its transactions
GateSpeeds(txns, g) ==
    LET at == SelectSeq(txns, LAMBDA t : t.gate_id = g)
    IN [i \in 1..Len(at) |-> at[i].speed]

\* ETCAnomalyDetector.gate_stats: a gate is registered by its first raw transaction
RegisteredGates(rc) == {g \in {p[2] : p \in DOMAIN rc} : \E p \in DOMAIN rc : p[2] = g /\ rc[p] > 0}

\* an upper bound of len(recent_travel_times) of a gate: a travel time needs
\* an earlier transaction of the same vehicle
PossibleTravelTimes(txns, g) ==
    Cardinality({i \in 1..Len(txns) :
                    /\ txns[i].gate_id = g
                    /\ \E j \in 1..(i - 1) : txns[j].vehicle_id = txns[i].vehicle_id})

\* the number of recent transactions of a gate inside the time window
WindowCount(txns, g, now, window) ==
    Cardinality({i \in 1..Len(txns) : txns[i].gate_id = g /\ now - txns[i].timestamp <= window})

FLOW_TIME_WINDOW == 60

\* Condition.evaluate of each condition type in the context the engine
\* builds.  queue_lengths is always empty and weather_type is always 'clear'
\* there.  The travel time statistics are floats the model does not carry:
\* the two conditions over them are a draw (tt, ca) that can only be true once
\* enough travel times can exist.
CondValue(cond, txns, events, processed, gates, now, tt, ca) ==
    CASE cond.type = "speed_below_threshold" ->
           \E g \in gates :
              LET sp == GateSpeeds(txns, g)
              IN /\ Len(sp) >= cond.n
                 /\ IF Len(sp) = 0 THEN 0 < cond.p
                    ELSE SumSeq(sp) < KmH(cond.p) * Len(sp)
      [] cond.type = "speed_std_high" ->
           \E g \in gates :
              LET sp == GateSpeeds(txns, g)
                  x == [i \in 1..Len(sp) |-> sp[i] \div 10]
                  sq == [i \in 1..Len(sp) |-> x[i] * x[i]]
              IN /\ Len(sp) >= cond.n
                 /\ Len(sp) * SumSeq(sq) - SumSeq(x) * SumSeq(x)
                      > (cond.p * 5) * (cond.p * 5) * Len(sp) * Len(sp)
      [] cond.type = "travel_time_outlier" ->
           tt /\ \E g \in gates : PossibleTravelTimes(txns, g) >= cond.n
      [] cond.type = "flow_imbalance" ->
           \E up \in gates : \E down \in gates :
              /\ up < down
              /\ ~\E mid \in gates : up < mid /\ mid < down
              /\ LET up_count == WindowCount(txns, up, now, FLOW_TIME_WINDOW)
                     down_count == WindowCount(txns, down, now, FLOW_TIME_WINDOW)
                 IN up_count >= cond.n /\ 100 * down_count < cond.p * up_count
      [] cond.type = "consecutive_alerts" ->
           ca /\ \E g \in gates : PossibleTravelTimes(txns, g) >= cond.p + 4
      [] cond.type = "queue_length_exceeds" -> FALSE
      [] cond.type = "weather_condition" -> FALSE
      [] cond.type = "high_missed_read_rate" ->
           100 * CountType(events, "missed_read") > cond.p * Max(1, processed)

\* whether a draw over the travel time statistics can matter at all
TravelTimesExist(txns, gates) == \E g \in gates : PossibleTravelTimes(txns, g) >= 5

-----------------------------------------------------------------------------
(* SimulationEngine: the runs explored *)

\* Each scenario is a configuration with the spawn schedule the spawner
\* produced for it (any sorted list of total_vehicles positive times).
Quiet ==
    [cfg |-> [BaseConfig EXCEPT !.total_vehicles = 1], schedule |-> <<2>>]

OneLane ==
    [cfg |-> [BaseConfig EXCEPT !.num_lanes = 1, !.max_simulation_time = 20],
     schedule |-> <<2, 2>>]

TwoLane ==
    [cfg |-> [BaseConfig EXCEPT !.max_simulation_time = 24], schedule |-> <<2, 4>>]

Anomalous ==
    [cfg |-> [BaseConfig EXCEPT !.anomaly_ratio = 1, !.global_anomaly_start = 12,
                                !.vehicle_safe_run_time = 6,
                                !.max_simulation_time = 26],
     schedule |-> <<2, 6>>]

Late ==
    [cfg |-> [BaseConfig EXCEPT !.anomaly_ratio = 1, !.global_anomaly_start = 300,
                                !.vehicle_safe_run_time = 10,
                                !.max_simulation_time = 300],
     schedule |-> <<248, 248>>]

\* a configuration with a negative probability
Negative ==
    [cfg |-> [BaseConfig EXCEPT !.anomaly_ratio = -1, !.total_vehicles = 1,
                                !.max_simulation_time = 6],
     schedule |-> <<2>>]

\* three vehicles due at once on a single lane
Crowded ==
    [cfg |-> [BaseConfig EXCEPT !.num_lanes = 1, !.total_vehicles = 3,
                                !.max_simulation_time = 8],
     schedule |-> <<2, 2, 2>>]

Scenarios == {Quiet, OneLane, TwoLane, Anomalous, Late, Negative, Crowded}

\* the draws of Vehicle.__init__ the runs take
VehicleTypes == {"CAR", "BUS"}

DriverStyles == {"normal"}

DesiredSpeeds == {KmH(110)}

\* the draws of trigger_anomaly the runs take
AnomalyTargets == {KmH(20)}

MaxActivations == 1

Lanes(c) == 0..(c.num_lanes - 1)

\* random.shuffle(lane_choice): every order of the lanes
LaneOrders(c) ==
    {p \in [1..c.num_lanes -> Lanes(c)] : \A i, j \in 1..c.num_lanes : p[i] = p[j] => i = j}

-----------------------------------------------------------------------------
(* SimulationEngine: construction *)

\* SimulationSession.__init__: no configuration received, not running, no
\* task (task 0 stands for None); tasks holds every task the session created
NoSession ==
    [config |-> BaseConfig, is_running |-> FALSE, is_paused |-> FALSE,
     task |-> 0, tasks |-> <<>>]

\* WebSocketManager.__init__: no session in the table.  connections holds,
\* for every handle_session call made so far, the session id it was given,
\* whether its websocket is still open and the SimulationSession it created
\* (the local variable session of the call).  sessions maps a session id to
\* the call whose SimulationSession the table holds.
NewManager == [sessions |-> <<>>, connections |-> <<>>]

Init ==
    \E sc \in Scenarios :
       /\ ~Rejected(sc.cfg)
       /\ config = sc.cfg
       /\ spawn_schedule = sc.schedule
       /\ pc = "spawn"
       /\ cursor = 1
       /\ current_time = 0
       /\ vehicle_id_counter = 0
       /\ spawn_idx = 0
       /\ veh = <<>>
       /\ vehicles = <<>>
       /\ finished_vehicles = <<>>
       /\ active_vehicles = <<>>
       /\ blocked_lanes = [l \in Lanes(sc.cfg) |-> {}]
       /\ index = EmptyIndex
       /\ anomaly_logs = <<>>
       /\ transactions = <<>>
       /\ noise_events = <<>>
       /\ total_processed = 0
       /\ raw_count = [p \in (0..(sc.cfg.total_vehicles - 1)) \X EtcGates(sc.cfg) |-> 0]
       /\ rules = create_default_rules
       /\ event_history = <<>>
       /\ trace = <<>>
       /\ session = NoSession
       /\ context = <<>>
       /\ detector = NewDetector
       /\ manager = NewManager

-----------------------------------------------------------------------------
(* SimulationEngine.run: vehicle generation *)

\* variant: a deferred spawn also takes an id
AlwaysCount(counter, placed) == counter + 1

\* vehicle_id_counter after a spawn attempt: += 1 in the branch that places
CounterAfter(counter, placed) == IF placed THEN counter + 1 ELSE counter

\* the condition of the inner while loop of run
SpawnDue ==
    /\ spawn_idx < Len(spawn_schedule)
    /\ spawn_schedule[spawn_idx + 1] <= current_time

\* variant: every lane is taken as clear
LaneAlwaysClear(lane) == TRUE

\* the entry of a lane is clear: no vehicle of the lane within the first 50 m
LaneClear(lane) ==
    \A i \in 1..Len(vehicles) :
       ~(veh[vehicles[i]].lane = lane /\ veh[vehicles[i]].pos < 50 * U)

\* one iteration of the inner while loop: the first clear lane of the
\* shuffled order takes the vehicle; without one the spawn time moves by 1 s
SpawnAttempt ==
    /\ pc = "spawn"
    /\ SpawnDue
    /\ \E order \in LaneOrders(config), vtype \in VehicleTypes, style \in DriverStyles,
          desired \in DesiredSpeeds,
          potential \in (IF config.anomaly_ratio > 0 THEN BOOLEAN ELSE {FALSE}) :
          LET clear == SelectSeq(order, LaneClear)
          IN IF clear # <<>>
             THEN /\ veh' = [id \in DOMAIN veh \cup {vehicle_id_counter} |->
                              IF id \in DOMAIN veh THEN veh[id]
                              ELSE NewVehicle(vehicle_id_counter, current_time,
                                              clear[1], vtype, style, desired,
                                              potential)]
                  /\ vehicles' = Append(vehicles, vehicle_id_counter)
                  /\ vehicle_id_counter' = CounterAfter(vehicle_id_counter, TRUE)
                  /\ spawn_idx' = spawn_idx + 1
                  /\ UNCHANGED spawn_schedule
             ELSE /\ spawn_schedule' =
                        [spawn_schedule EXCEPT ![spawn_idx + 1] = @ + 1]
                  /\ vehicle_id_counter' = CounterAfter(vehicle_id_counter, FALSE)
                  /\ UNCHANGED <<veh, vehicles, spawn_idx>>
    /\ UNCHANGED <<manager, detector, context, session, config, pc, cursor, current_time, finished_vehicles,
                   active_vehicles, blocked_lanes, index, anomaly_logs,
                   transactions, noise_events, total_processed, raw_count,
                   rules, event_history, trace>>

\* list.sort(key = pos) is stable: equal positions keep their order
RECURSIVE InsertByPos(_, _, _)
InsertByPos(sorted, id, vs) ==
    IF sorted = <<>> THEN <<id>>
    ELSE LET last == sorted[Len(sorted)]
         IN IF vs[last].pos <= vs[id].pos THEN Append(sorted, id)
            ELSE Append(InsertByPos(SubSeq(sorted, 1, Len(sorted) - 1), id, vs), last)

RECURSIVE SortByPos(_, _)
SortByPos(ids, vs) ==
    IF ids = <<>> THEN <<>>
    ELSE InsertByPos(SortByPos(SubSeq(ids, 1, Len(ids) - 1), vs), ids[Len(ids)], vs)

\* the end of the inner loop: active_vehicles, the index and blocked_lanes
Materialize ==
    /\ pc = "spawn"
    /\ ~SpawnDue
    /\ LET active == SortByPos(SelectSeq(vehicles, LAMBDA id : ~veh[id].finished), veh)
       IN /\ active_vehicles' = active
          /\ index' = rebuild(active, veh, config)
          /\ blocked_lanes' =
                [l \in Lanes(config) |->
                    {veh[active[i]].pos : i \in
                        {k \in 1..Len(active) :
                            /\ veh[active[k]].lane = l
                            /\ veh[active[k]].anomaly_type = 1
                            /\ veh[active[k]].anomaly_state = "active"}}]
          /\ pc' = IF active = <<>> THEN "rules" ELSE "update"
    /\ cursor' = 1
    /\ UNCHANGED <<manager, detector, context, session, config, current_time, vehicle_id_counter, spawn_schedule,
                   spawn_idx, veh, vehicles, finished_vehicles, anomaly_logs,
                   transactions, noise_events, total_processed, raw_count,
                   rules, event_history, trace>>

-----------------------------------------------------------------------------
(* SimulationEngine.run: the per-vehicle loops of a tick *)

\* variant: the trajectory loop in front of the gantry loop
TrajectoryFirst(p) ==
    CASE p = "update" -> "trajectory"
      [] p = "trajectory" -> "gantry"
      [] p = "gantry" -> "rules"

\* the order of the loops of a tick after the update loop
NextPhase(p) ==
    CASE p = "update" -> "gantry"
      [] p = "gantry" -> "trajectory"
      [] p = "trajectory" -> "rules"

\* the step from one vehicle of a loop to the next, or to the next loop
Advance(next_pc) ==
    IF cursor < Len(active_vehicles)
    THEN cursor' = cursor + 1 /\ pc' = pc
    ELSE cursor' = 1 /\ pc' = next_pc

KindsOf(n) == [i \in 1..n |-> "anomaly"]

\* the end of the loop body: the vehicle and the index are written back,
\* a returned log is appended
WriteBack(id, v2, log) ==
    /\ veh' = [veh EXCEPT ![id] = v2]
    /\ index' = update_vehicle(index, v2, config)
    /\ anomaly_logs' = anomaly_logs \o log
    /\ trace' = trace \o KindsOf(Len(log))

\* get_nearby_vehicles and update for the vehicle trigger_anomaly returned
Updated(id, r) ==
    WriteBack(id,
              update(r.v, config.simulation_dt,
                     get_nearby_vehicles(index, r.v, [veh EXCEPT ![id] = r.v],
                                         RANGE_CELLS, config),
                     blocked_lanes, current_time, config),
              r.log)

\* trigger_anomaly can reach its draws
Draws(v1) ==
    AnomalyEligible(v1, current_time, config) /\ Len(anomaly_logs) < MaxActivations

AfterRecordTime(id, seg, v1) ==
    \E coin \in (IF Draws(v1) THEN BOOLEAN ELSE {FALSE}),
       kind \in (IF Draws(v1) /\ v1.anomaly_type = 0 THEN 1..3 ELSE {1}),
       target \in AnomalyTargets :
       Updated(id, trigger_anomaly(v1, current_time, seg, config, coin, kind, target))

\* the body of the update loop for the vehicle at the cursor: record_time,
\* trigger_anomaly, get_nearby_vehicles, update, update_vehicle
UpdateVehicle ==
    /\ pc = "update"
    /\ AfterRecordTime(active_vehicles[cursor],
                  veh[active_vehicles[cursor]].pos \div SegLen(config),
                  record_time(veh[active_vehicles[cursor]], current_time,
                              veh[active_vehicles[cursor]].pos \div SegLen(config),
                              config))
    /\ Advance(NextPhase("update"))
    /\ UNCHANGED <<manager, detector, context, session, config, current_time, vehicle_id_counter, spawn_schedule,
                   spawn_idx, vehicles, finished_vehicles, active_vehicles,
                   blocked_lanes, transactions, noise_events, total_processed,
                   raw_count, rules, event_history>>

GATE_HALF_WINDOW == 50

\* the window test of the gantry loop: position_km - 0.05 <= pos_km < position_km + 0.05
InGateWindow(v, km) ==
    /\ (km * 1000 - GATE_HALF_WINDOW) * U <= v.pos
    /\ v.pos < (km * 1000 + GATE_HALF_WINDOW) * U

\* variant: the _last_gate_<id> attribute never consulted
EveryPassage(v, km) == TRUE

\* the _last_gate_<id> attribute lets a gate through once per vehicle
FirstPassage(v, km) == km \notin v.last_gates

\* the gates of the loop that call _process_etc_transaction for the vehicle
Crossings(v, c) == {km \in EtcGates(c) : InGateWindow(v, km) /\ FirstPassage(v, km)}

\* the body of the gantry loop for the vehicle at the cursor, with
\* _process_etc_transaction for the gate it crosses (the windows are disjoint)
GantryVehicle ==
    /\ pc = "gantry"
    /\ LET id == active_vehicles[cursor]
           v == veh[id]
       IN IF Crossings(v, config) = {}
          THEN UNCHANGED <<veh, transactions, noise_events, total_processed,
                           raw_count, trace>>
          ELSE \E km \in Crossings(v, config), coins \in NoiseCoins :
                 LET raw == [vehicle_id |-> id, gate_id |-> km,
                             timestamp |-> current_time, lane |-> v.lane,
                             speed |-> v.speed,
                             status |-> IF v.anomaly_state = "active"
                                        THEN "anomaly" ELSE "normal",
                             is_duplicate |-> FALSE, copy |-> 0,
                             delayed |-> FALSE, drifted |-> FALSE]
                     res == process(raw, coins)
                 IN /\ veh' = [veh EXCEPT ![id].last_gates = @ \cup {km}]
                    /\ raw_count' = [raw_count EXCEPT ![<<id, km>>] = @ + 1]
                    /\ total_processed' = total_processed + 1
                    /\ noise_events' = noise_events \o res.events
                    /\ transactions' = transactions \o res.out
                    /\ trace' = trace \o [i \in 1..Len(res.out) |-> "txn"]
    /\ Advance(NextPhase("gantry"))
    /\ UNCHANGED <<manager, detector, context, session, config, current_time, vehicle_id_counter, spawn_schedule,
                   spawn_idx, vehicles, finished_vehicles, active_vehicles,
                   blocked_lanes, index, anomaly_logs, rules, event_history>>

\* the trajectory loop: one point per active vehicle
RecordTrajectory ==
    /\ pc = "trajectory"
    /\ trace' = trace \o [i \in 1..Len(active_vehicles) |-> "traj"]
    /\ pc' = NextPhase("trajectory")
    /\ UNCHANGED <<manager, detector, context, session, config, cursor, current_time, vehicle_id_counter,
                   spawn_schedule, spawn_idx, veh, vehicles, finished_vehicles,
                   active_vehicles, blocked_lanes, index, anomaly_logs,
                   transactions, noise_events, total_processed, raw_count,
                   rules, event_history>>

-----------------------------------------------------------------------------
(* SimulationEngine.run: rule evaluation and the end of the tick *)

\* the alert context and evaluate_all; the events go to rule_engine_events
EvaluateRules ==
    /\ pc = "rules"
    /\ LET gates == RegisteredGates(raw_count)
           open == TravelTimesExist(transactions, gates)
       IN \E tt \in (IF open THEN BOOLEAN ELSE {FALSE}),
             ca \in (IF open THEN BOOLEAN ELSE {FALSE}) :
             LET vals == [i \in 1..Len(rules) |->
                            [k \in 1..Len(rules[i].conditions) |->
                               CondValue(rules[i].conditions[k], transactions,
                                         noise_events, total_processed, gates,
                                         current_time, tt, ca)]]
                 res == evaluate_all(rules, current_time, vals)
             IN /\ rules' = res.rules
                /\ event_history' = event_history \o res.events
                /\ trace' = trace \o [i \in 1..Len(res.events) |-> "rule"]
    /\ pc' = "finalize"
    /\ UNCHANGED <<manager, detector, context, session, config, cursor, current_time, vehicle_id_counter,
                   spawn_schedule, spawn_idx, veh, vehicles, finished_vehicles,
                   active_vehicles, blocked_lanes, index, anomaly_logs,
                   transactions, noise_events, total_processed, raw_count>>

\* variant: the finished vehicles stay in the list
KeepAll(ids, vs) == ids

\* [v for v in self.vehicles if v.finished]
Completed(ids, vs) == SelectSeq(ids, LAMBDA id : vs[id].finished)

\* [v for v in self.vehicles if not v.finished]
Remaining(ids, vs) == SelectSeq(ids, LAMBDA id : ~vs[id].finished)

\* the end of the loop body: the finished vehicles move to finished_vehicles,
\* the clock advances, then the max-time break and the loop condition
\* variant: a clock that stands still
TimeStuck(now, dt) == now

\* self.current_time += dt
TimeAfter(now, dt) == now + dt

Finalize ==
    /\ pc = "finalize"
    /\ LET completed == Completed(vehicles, veh)
           remaining == Remaining(vehicles, veh)
           time == TimeAfter(current_time, config.simulation_dt)
       IN /\ finished_vehicles' = finished_vehicles \o completed
          /\ vehicles' = remaining
          /\ current_time' = time
          /\ pc' = IF time > config.max_simulation_time THEN "done"
                   ELSE IF Len(remaining) > 0 \/ spawn_idx < Len(spawn_schedule)
                        THEN "spawn" ELSE "done"
    /\ trace' = <<>>
    /\ UNCHANGED <<manager, detector, context, session, config, cursor, vehicle_id_counter, spawn_schedule, spawn_idx,
                   veh, active_vehicles, blocked_lanes, index, anomaly_logs,
                   transactions, noise_events, total_processed, raw_count,
                   rules, event_history>>

Next ==
    \/ SpawnAttempt
    \/ Materialize
    \/ UpdateVehicle
    \/ GantryVehicle
    \/ RecordTrajectory
    \/ EvaluateRules
    \/ Finalize

Spec == Init /\ [][Next]_vars

\* run() is sequential code: whenever a statement of the loop can be
\* executed, one is.  A statement can be executed in every state but the end of the
\* run, so weak fairness of Next, WF_vars(Next), is the formula
\* []<>(pc = "done") \/ []<><<Next>>_vars.
SpecFair == Spec /\ ([]<>(pc = "done") \/ []<><<Next>>_vars)

-----------------------------------------------------------------------------
(* AlertRuleEngine on its own: any caller, any condition values *)

\* the rules loaded into the engine under test, taken from create_default_rules
RuleLibrary == {"congestion", "suspected_incident", "slow_traffic"}

\* the steps by which a caller's context.current_time moves on (0: a second
\* evaluation at the same time)
TimeSteps == {0, 30, 45}

MaxContextTime == 120

\* what the conditions of a rule evaluate to: all true, none true, or only
\* the first one true
ConditionPatterns == {"all", "none", "first"}

PatternVals(r, pat) ==
    [k \in 1..Len(r.conditions) |-> pat = "all" \/ (pat = "first" /\ k = 1)]

\* one pattern per rule; a rule that does not reach its conditions has none
RECURSIVE PatternChoices(_, _)
PatternChoices(rs, now) ==
    IF rs = <<>> THEN {<<>>}
    ELSE {<<pat>> \o rest :
            pat \in (IF Evaluated(rs[1], now) THEN ConditionPatterns ELSE {"none"}),
            rest \in PatternChoices(Tail(rs), now)}

InitRules ==
    /\ config = BaseConfig
    /\ spawn_schedule = <<>>
    /\ pc = "rules_only"
    /\ cursor = 1
    /\ current_time = 0
    /\ vehicle_id_counter = 0
    /\ spawn_idx = 0
    /\ veh = <<>>
    /\ vehicles = <<>>
    /\ finished_vehicles = <<>>
    /\ active_vehicles = <<>>
    /\ blocked_lanes = [l \in Lanes(BaseConfig) |-> {}]
    /\ index = EmptyIndex
    /\ anomaly_logs = <<>>
    /\ transactions = <<>>
    /\ noise_events = <<>>
    /\ total_processed = 0
    /\ raw_count = <<>>
    /\ rules = SelectSeq(create_default_rules, LAMBDA r : r.name \in RuleLibrary)
    /\ event_history = <<>>
    /\ trace = <<>>
    /\ session = NoSession
    /\ context = <<>>
    /\ detector = NewDetector
    /\ manager = NewManager

\* AlertRuleEngine.evaluate_all with a context whose time has not gone back
RulesEvaluateAll ==
    /\ pc = "rules_only"
    /\ \E step \in TimeSteps :
          /\ current_time + step <= MaxContextTime
          /\ \E pats \in PatternChoices(rules, current_time + step) :
                LET vals == [i \in 1..Len(rules) |-> PatternVals(rules[i], pats[i])]
                    res == evaluate_all(rules, current_time + step, vals)
                IN /\ rules' = res.rules
                   /\ event_history' = event_history \o res.events
                   /\ context' = vals
          /\ current_time' = current_time + step
    /\ UNCHANGED <<manager, detector, session, config, pc, cursor, vehicle_id_counter, spawn_schedule,
                   spawn_idx, veh, vehicles, finished_vehicles, active_vehicles,
                   blocked_lanes, index, anomaly_logs, transactions, noise_events,
                   total_processed, raw_count, trace>>

\* AlertRuleEngine.enable_rule
RulesEnableRule ==
    /\ pc = "rules_only"
    /\ \E i \in 1..Len(rules) : rules' = [rules EXCEPT ![i].enabled = ~@]
    /\ UNCHANGED <<engineVars, event_history>>

NextRules ==
    \/ RulesEvaluateAll
    \/ RulesEnableRule

SpecRules == InitRules /\ [][NextRules]_vars

\* rules a caller adds with add_rule: the occupancy condition combined with
\* a speed condition by OR, in both orders, before a default rule
CustomRules ==
    << AlertRule("occupancy_or_speed",
                 <<Cond("occupancy_high", 80, 0), Cond("speed_below_threshold", 40, 3)>>,
                 "OR", 60),
       AlertRule("speed_or_occupancy",
                 <<Cond("speed_below_threshold", 40, 3), Cond("occupancy_high", 80, 0)>>,
                 "OR", 60),
       create_default_rules[3] >>

InitCustom ==
    /\ config = BaseConfig
    /\ spawn_schedule = <<>>
    /\ pc = "rules_only"
    /\ cursor = 1
    /\ current_time = 0
    /\ vehicle_id_counter = 0
    /\ spawn_idx = 0
    /\ veh = <<>>
    /\ vehicles = <<>>
    /\ finished_vehicles = <<>>
    /\ active_vehicles = <<>>
    /\ blocked_lanes = [l \in Lanes(BaseConfig) |-> {}]
    /\ index = EmptyIndex
    /\ anomaly_logs = <<>>
    /\ transactions = <<>>
    /\ noise_events = <<>>
    /\ total_processed = 0
    /\ raw_count = <<>>
    /\ rules = CustomRules
    /\ event_history = <<>>
    /\ trace = <<>>
    /\ session = NoSession
    /\ context = <<>>
    /\ detector = NewDetector
    /\ manager = NewManager

SpecCustom == InitCustom /\ [][NextRules]_vars

-----------------------------------------------------------------------------
(* One flagged vehicle alone on a long road, followed through its anomaly
   states: the body of the update loop of run() for it, tick after tick *)

\* a road of one segment, long enough for the vehicle to stay on it
LongRoad ==
    [BaseConfig EXCEPT !.road_length_km = 100, !.segment_length_km = 100,
                       !.num_lanes = 1, !.total_vehicles = 1,
                       !.anomaly_ratio = 1, !.global_anomaly_start = 4,
                       !.vehicle_safe_run_time = 6,
                       !.max_simulation_time = 2200]

\* the last clock at which the coin of a vehicle of type 0 can come up
FirstDrawUntil == 8

\* the clock up to which the vehicle is followed
MaxClock == 2060

InitLone ==
    /\ config = LongRoad
    /\ spawn_schedule = <<0>>
    /\ pc = "lone"
    /\ cursor = 1
    /\ current_time = 0
    /\ vehicle_id_counter = 1
    /\ spawn_idx = 1
    /\ \E vtype \in VehicleTypes, potential \in BOOLEAN :
          veh = [id \in {0} |->
                   NewVehicle(0, 0, 0, vtype, "normal", KmH(110), potential)]
    /\ vehicles = <<0>>
    /\ finished_vehicles = <<>>
    /\ active_vehicles = <<0>>
    /\ blocked_lanes = [l \in Lanes(LongRoad) |-> {}]
    /\ index = EmptyIndex
    /\ anomaly_logs = <<>>
    /\ transactions = <<>>
    /\ noise_events = <<>>
    /\ total_processed = 0
    /\ raw_count = <<>>
    /\ rules = create_default_rules
    /\ event_history = <<>>
    /\ trace = <<>>
    /\ session = NoSession
    /\ context = <<>>
    /\ detector = NewDetector
    /\ manager = NewManager

\* the coin of trigger_anomaly can come up
LoneDraws(v) ==
    /\ AnomalyEligible(v, current_time, config)
    /\ v.anomaly_type = 0 => current_time <= FirstDrawUntil

\* record_time, trigger_anomaly and update for the vehicle, no other vehicle
\* being near, and the clock of the tick
LoneTick ==
    /\ pc = "lone"
    /\ current_time < MaxClock
    /\ ~veh[0].finished
    /\ \E coin \in (IF LoneDraws(veh[0]) THEN BOOLEAN ELSE {FALSE}),
          kind \in (IF LoneDraws(veh[0]) /\ veh[0].anomaly_type = 0 THEN 1..3 ELSE {1}),
          target \in AnomalyTargets :
          LET seg == veh[0].pos \div SegLen(config)
              rec == record_time(veh[0], current_time, seg, config)
              r == trigger_anomaly(rec, current_time, seg, config, coin, kind, target)
          IN /\ veh' = [veh EXCEPT ![0] = update(r.v, config.simulation_dt, <<>>,
                                                  blocked_lanes, current_time, config)]
             /\ anomaly_logs' = anomaly_logs \o r.log
    /\ current_time' = TimeAfter(current_time, config.simulation_dt)
    /\ UNCHANGED <<manager, detector, context, session, config, pc, cursor, vehicle_id_counter,
                   spawn_schedule, spawn_idx, vehicles, finished_vehicles,
                   active_vehicles, blocked_lanes, index, transactions,
                   noise_events, total_processed, raw_count, rules,
                   event_history, trace>>

NextLone == LoneTick

SpecLone == InitLone /\ [][NextLone]_vars

-----------------------------------------------------------------------------
(* One vehicle driving up to two stopped vehicles on a long road: the ticks
   of run() (index rebuilt, blocked lanes collected, every vehicle updated in
   the order of the positions) with no spawn and no gantry in reach *)

\* the road, with n lanes and a tick of 1 s
WideRoad(n) ==
    [LongRoad EXCEPT !.num_lanes = n, !.total_vehicles = 3, !.anomaly_ratio = 0,
                     !.simulation_dt = 1]

\* the positions the stopped vehicles stand at, in m
ObstaclePositions == {250, 300, 450}

\* the clock up to which the vehicles are followed
MaxObstacleClock == 30

\* a vehicle that has stopped as an anomaly of type 1 at clock 0
Obstacle(v_id, lane, pos) ==
    [NewVehicle(v_id, 0, lane, "CAR", "normal", KmH(110), TRUE)
       EXCEPT !.pos = pos * U, !.speed = 0, !.anomaly_type = 1,
              !.anomaly_state = "active", !.anomaly_timer = ANOMALY_TIMER(1),
              !.anomaly_trigger_time = 0, !.target_speed_override = 0]

InitObstacles ==
    \E n \in {2, 3} :
       /\ config = WideRoad(n)
       /\ spawn_schedule = <<0, 0, 0>>
       /\ pc = "obstacles"
       /\ cursor = 1
       /\ current_time = 0
       /\ vehicle_id_counter = 3
       /\ spawn_idx = 3
       /\ \E vtype \in VehicleTypes, lane \in 0..(n - 1), l1 \in 0..(n - 1),
             l2 \in 0..(n - 1), p1 \in ObstaclePositions, p2 \in ObstaclePositions :
             /\ p1 <= p2
             /\ p1 = p2 => l1 < l2
             /\ veh = [id \in 0..2 |->
                         CASE id = 0 -> NewVehicle(0, 0, lane, vtype, "normal",
                                                   KmH(110), FALSE)
                           [] id = 1 -> Obstacle(1, l1, p1)
                           [] id = 2 -> Obstacle(2, l2, p2)]
       /\ vehicles = <<0, 1, 2>>
       /\ finished_vehicles = <<>>
       /\ active_vehicles = <<>>
       /\ blocked_lanes = [l \in 0..(n - 1) |-> {}]
       /\ index = EmptyIndex
       /\ anomaly_logs = <<>>
       /\ transactions = <<>>
       /\ noise_events = <<>>
       /\ total_processed = 0
       /\ raw_count = <<>>
       /\ rules = create_default_rules
       /\ event_history = <<>>
       /\ trace = <<>>
       /\ session = NoSession
       /\ context = <<>>
       /\ detector = NewDetector
       /\ manager = NewManager

\* blocked_lanes of a tick: the positions of the active type-1 vehicles by lane
BlockedLanes(active, vs, c) ==
    [l \in Lanes(c) |->
        {vs[active[i]].pos : i \in {k \in 1..Len(active) :
                                      /\ vs[active[k]].lane = l
                                      /\ vs[active[k]].anomaly_type = 1
                                      /\ vs[active[k]].anomaly_state = "active"}}]

\* the body of the update loop for one vehicle, no coin coming up: the
\* vehicles and the index after it
UpdatedIn(v1, vs, idx, bl, now, c) ==
    LET v2 == update(v1, c.simulation_dt,
                     get_nearby_vehicles(idx, v1, [vs EXCEPT ![v1.id] = v1],
                                         RANGE_CELLS, c),
                     bl, now, c)
    IN [vs |-> [vs EXCEPT ![v1.id] = v2], idx |-> update_vehicle(idx, v2, c)]

\* the update loop of a tick over the vehicles ids
RECURSIVE UpdateLoop(_, _, _, _, _, _)
UpdateLoop(ids, vs, idx, bl, now, c) ==
    IF ids = <<>> THEN [vs |-> vs, idx |-> idx]
    ELSE LET r == UpdatedIn(
                    trigger_anomaly(
                       record_time(vs[ids[1]], now, vs[ids[1]].pos \div SegLen(c), c),
                       now, vs[ids[1]].pos \div SegLen(c), c, FALSE, 1, 0).v,
                    vs, idx, bl, now, c)
         IN UpdateLoop(Tail(ids), r.vs, r.idx, bl, now, c)

\* one tick of run()
ObstacleTick ==
    /\ pc = "obstacles"
    /\ current_time < MaxObstacleClock
    /\ LET active == SortByPos(SelectSeq(vehicles, LAMBDA id : ~veh[id].finished), veh)
           bl == BlockedLanes(active, veh, config)
           r == UpdateLoop(active, veh, rebuild(active, veh, config), bl,
                           current_time, config)
       IN /\ active_vehicles' = active
          /\ blocked_lanes' = bl
          /\ veh' = r.vs
          /\ index' = r.idx
    /\ current_time' = TimeAfter(current_time, config.simulation_dt)
    /\ UNCHANGED <<manager, detector, context, session, config, pc, cursor, vehicle_id_counter,
                   spawn_schedule, spawn_idx, vehicles, finished_vehicles,
                   anomaly_logs, transactions, noise_events, total_processed,
                   raw_count, rules, event_history, trace>>

NextObstacles == ObstacleTick

SpecObstacles == InitObstacles /\ [][NextObstacles]_vars

-----------------------------------------------------------------------------
(* SpatialIndex on its own: a caller holding two vehicles makes any calls of
   add_vehicle, update_vehicle, remove_vehicle, rebuild and clear, and the
   vehicles move, change lane and finish between the calls.  pc is "rebuilt"
   while the calls since the last rebuild have all been update_vehicle, and
   "index" otherwise. *)

\* the positions (m) and lanes the vehicles take; lane 1 is outside the
\* range(num_lanes) of the one-lane index
IndexPositions == {0, 150}

IndexLanes == {0, 1}

\* the lists rebuild is called with
IndexLists == {<<0, 1>>, <<1, 0>>, <<0>>, <<>>}

\* the number of ids the grid may hold when add_vehicle is called
MaxGridEntries == 2

\* the number of ids in the lists of the grid
RECURSIVE GridSize(_)
GridSize(grid) ==
    IF DOMAIN grid = {} THEN 0
    ELSE LET key == CHOOSE k \in DOMAIN grid : TRUE
         IN Len(grid[key]) + GridSize([k \in DOMAIN grid \ {key} |-> grid[k]])

InitIndex ==
    /\ config = [BaseConfig EXCEPT !.road_length_km = 1, !.num_lanes = 1]
    /\ spawn_schedule = <<0, 0>>
    /\ pc = "index"
    /\ cursor = 1
    /\ current_time = 0
    /\ vehicle_id_counter = 2
    /\ spawn_idx = 2
    /\ veh = [id \in 0..1 |-> NewVehicle(id, 0, 0, "CAR", "normal", KmH(110), FALSE)]
    /\ vehicles = <<0, 1>>
    /\ finished_vehicles = <<>>
    /\ active_vehicles = <<>>
    /\ blocked_lanes = [l \in {0} |-> {}]
    /\ index = EmptyIndex
    /\ anomaly_logs = <<>>
    /\ transactions = <<>>
    /\ noise_events = <<>>
    /\ total_processed = 0
    /\ raw_count = <<>>
    /\ rules = create_default_rules
    /\ event_history = <<>>
    /\ trace = <<>>
    /\ session = NoSession
    /\ context = <<>>
    /\ detector = NewDetector
    /\ manager = NewManager

\* what the calls on the index leave alone
IndexFrame ==
    UNCHANGED <<manager, detector, context, session, config, cursor, current_time, vehicle_id_counter,
                spawn_schedule, spawn_idx, vehicles, finished_vehicles,
                active_vehicles, blocked_lanes, anomaly_logs, transactions,
                noise_events, total_processed, raw_count, rules, event_history,
                trace>>

\* a vehicle moves, changes lane or finishes; the index is not told
VehicleMoves ==
    /\ pc \in {"index", "rebuilt"}
    /\ \E id \in DOMAIN veh, lane \in IndexLanes, pos \in IndexPositions,
          finished \in BOOLEAN :
          veh' = [veh EXCEPT ![id] = [@ EXCEPT !.lane = lane, !.pos = pos * U,
                                               !.finished = finished]]
    /\ UNCHANGED <<pc, index>>
    /\ IndexFrame

IndexAdd ==
    /\ pc \in {"index", "rebuilt"}
    /\ GridSize(index.grid) < MaxGridEntries
    /\ \E id \in DOMAIN veh : index' = add_vehicle(index, veh[id], config)
    /\ pc' = "index"
    /\ UNCHANGED veh
    /\ IndexFrame

IndexUpdate ==
    /\ pc \in {"index", "rebuilt"}
    /\ \E id \in DOMAIN veh : index' = update_vehicle(index, veh[id], config)
    /\ UNCHANGED <<pc, veh>>
    /\ IndexFrame

IndexRemove ==
    /\ pc \in {"index", "rebuilt"}
    /\ \E id \in DOMAIN veh : index' = remove_vehicle(index, id)
    /\ pc' = "index"
    /\ UNCHANGED veh
    /\ IndexFrame

IndexRebuild ==
    /\ pc \in {"index", "rebuilt"}
    /\ \E ids \in IndexLists : index' = rebuild(ids, veh, config)
    /\ pc' = "rebuilt"
    /\ UNCHANGED veh
    /\ IndexFrame

IndexClear ==
    /\ pc \in {"index", "rebuilt"}
    /\ index' = EmptyIndex
    /\ pc' = "index"
    /\ UNCHANGED veh
    /\ IndexFrame

NextIndex ==
    \/ VehicleMoves
    \/ IndexAdd
    \/ IndexUpdate
    \/ IndexRemove
    \/ IndexRebuild
    \/ IndexClear

SpecIndex == InitIndex /\ [][NextIndex]_vars

-----------------------------------------------------------------------------
(* _process_etc_transaction with the detector followed: vehicles pass gate 2
   and then gate 4 one after the other, the noise stage duplicates some of
   the transactions, and every transaction it returns is recorded.  Missed
   reads, delays and drifts do not come up. *)

\* the vehicles that pass the two gates
DetectorVehicles == 7

\* the time (s) a vehicle takes from gate 2 to gate 4
TravelTimes == {60, 200}

\* the time (s) between a vehicle at gate 4 and the next vehicle at gate 2
Headway == 10

\* random.uniform(-0.1, 0.1) of the duplicate injector, in tenths of a second
Offsets == {-1, 0, 1}

\* the number of crossings the duplicate injector fires on
MaxDuplicates == 1

\* DuplicateReadInjector.inject: the timestamp of copy i is moved by
\* uniform(-0.1, 0.1) * i
Stamped(txns, u) ==
    [i \in 1..Len(txns) |-> [txns[i] EXCEPT !.timestamp = @ + u * txns[i].copy]]

InitDetector ==
    /\ config = [BaseConfig EXCEPT !.road_length_km = 5,
                                   !.total_vehicles = DetectorVehicles]
    /\ spawn_schedule = <<>>
    /\ pc = "detector"
    /\ cursor = 1
    /\ current_time = 0
    /\ vehicle_id_counter = DetectorVehicles
    /\ spawn_idx = 0
    /\ veh = <<>>
    /\ vehicles = <<>>
    /\ finished_vehicles = <<>>
    /\ active_vehicles = <<>>
    /\ blocked_lanes = [l \in 0..1 |-> {}]
    /\ index = EmptyIndex
    /\ anomaly_logs = <<>>
    /\ transactions = <<>>
    /\ noise_events = <<>>
    /\ total_processed = 0
    /\ raw_count = <<>>
    /\ rules = create_default_rules
    /\ event_history = <<>>
    /\ trace = <<>>
    /\ session = NoSession
    /\ context = <<>>
    /\ detector = NewDetector
    /\ manager = NewManager

\* the raw transaction of crossing k at the clock now: vehicle (k - 1) / 2 at
\* gate 2 (k odd) or gate 4 (k even)
RawTransaction(k, now) ==
    [vehicle_id |-> (k - 1) \div 2, gate_id |-> IF k % 2 = 1 THEN 2 ELSE 4,
     timestamp |-> Ds(now), lane |-> 0, speed |-> KmH(100), status |-> "normal",
     is_duplicate |-> FALSE, copy |-> 0, delayed |-> FALSE, drifted |-> FALSE]

\* _process_etc_transaction for the transactions the noise stage returned
Processed(raw, res, u) ==
    /\ transactions' = transactions \o Stamped(res.out, u)
    /\ noise_events' = noise_events \o res.events
    /\ total_processed' = total_processed + 1
    /\ detector' = RecordAll(register_gate(detector, raw.gate_id), Stamped(res.out, u))

\* SimulationEngine._process_etc_transaction for the next crossing
ProcessEtcTransaction ==
    /\ pc = "detector"
    /\ cursor <= 2 * DetectorVehicles
    /\ \E travel \in (IF cursor % 2 = 0 THEN TravelTimes ELSE {Headway}) :
          /\ current_time' = current_time + travel
          /\ \E dup \in (IF CountType(noise_events, "duplicate_read") < MaxDuplicates
                        THEN BOOLEAN ELSE {FALSE}) :
                \E u \in (IF dup THEN Offsets ELSE {0}) :
                   Processed(RawTransaction(cursor, current_time + travel),
                             process(RawTransaction(cursor, current_time + travel),
                                     [missed |-> FALSE, duplicate |-> dup,
                                      dup_count |-> 2, delayed |-> FALSE,
                                      drift |-> FALSE]),
                             u)
    /\ cursor' = cursor + 1
    /\ UNCHANGED <<manager, context, session, config, pc, vehicle_id_counter, spawn_schedule,
                   spawn_idx, veh, vehicles, finished_vehicles, active_vehicles,
                   blocked_lanes, index, anomaly_logs, raw_count, rules,
                   event_history, trace>>

NextDetector == ProcessEtcTransaction

SpecDetector == InitDetector /\ [][NextDetector]_vars

-----------------------------------------------------------------------------
(* The segment log of one vehicle: record_time at the start of every tick,
   for a vehicle that update moves forward or, while it changes lane, back *)

\* what update can do to the position in a tick: the interpolation of
\* update_lane_change can take it back (self.pos = start_pos + speed * dt * t
\* with a speed that has dropped), across a segment boundary too
Moves == {-1, 0, 1}

\* the length of a move: half a segment
MoveLength(c) == SegLen(c) \div 2

\* the clock up to which the vehicle is followed
MaxSegmentClock == 16

InitSegments ==
    /\ config = BaseConfig
    /\ spawn_schedule = <<0>>
    /\ pc = "segments"
    /\ cursor = 1
    /\ current_time = 0
    /\ vehicle_id_counter = 1
    /\ spawn_idx = 1
    /\ veh = [id \in {0} |-> NewVehicle(0, 0, 0, "CAR", "normal", KmH(110), FALSE)]
    /\ vehicles = <<0>>
    /\ finished_vehicles = <<>>
    /\ active_vehicles = <<0>>
    /\ blocked_lanes = [l \in Lanes(BaseConfig) |-> {}]
    /\ index = EmptyIndex
    /\ anomaly_logs = <<>>
    /\ transactions = <<>>
    /\ noise_events = <<>>
    /\ total_processed = 0
    /\ raw_count = <<>>
    /\ rules = create_default_rules
    /\ event_history = <<>>
    /\ trace = <<>>
    /\ session = NoSession
    /\ context = <<>>
    /\ detector = NewDetector
    /\ manager = NewManager

\* the recorded vehicle, moved
Displaced(v, move, c) ==
    IF v.finished THEN v ELSE [v EXCEPT !.pos = @ + move * MoveLength(c)]

\* record_time for the segment the vehicle is in, then its move of the tick
SegmentsTick ==
    /\ pc = "segments"
    /\ current_time < MaxSegmentClock
    /\ ~veh[0].finished
    /\ \E move \in Moves :
          /\ veh[0].pos + move * MoveLength(config) >= 0
          /\ veh' = [veh EXCEPT ![0] =
                       Displaced(record_time(veh[0], current_time,
                                             veh[0].pos \div SegLen(config), config),
                                 move, config)]
    /\ current_time' = TimeAfter(current_time, config.simulation_dt)
    /\ UNCHANGED <<manager, detector, context, session, config, pc, cursor, vehicle_id_counter,
                   spawn_schedule, spawn_idx, vehicles, finished_vehicles,
                   active_vehicles, blocked_lanes, index, anomaly_logs,
                   transactions, noise_events, total_processed, raw_count,
                   rules, event_history, trace>>

NextSegments == SegmentsTick

SpecSegments == InitSegments /\ [][NextSegments]_vars

-----------------------------------------------------------------------------
(* SimulationEngine.step *)

\* the attributes SimulationEngine.__init__ assigns to the engine
EngineAttributes ==
    {"config", "road_network", "spawner", "spatial_index", "etc_detector",
     "etc_alerts", "etc_noise_simulator", "etc_noise_events", "environment",
     "alert_rule_engine", "rule_engine_events", "vehicles", "finished_vehicles",
     "anomaly_logs", "trajectory_data", "segment_speed_history", "queue_events",
     "phantom_jam_events", "safety_data", "current_time", "vehicle_id_counter"}

\* the attributes the spawn loop of step() reads first
StepSpawnAttributes == {"spawn_idx", "spawn_schedule"}

\* SimulationEngine.step on an engine whose clock is clock: "return" is the
\* guard at its top, "AttributeError" the read of an attribute that was never
\* assigned, "tick" the loop body followed by current_time += dt
step(clock, c) ==
    IF clock >= c.max_simulation_time
    THEN [clock |-> clock, outcome |-> "return"]
    ELSE IF StepSpawnAttributes \subseteq EngineAttributes
    THEN [clock |-> clock + c.simulation_dt, outcome |-> "tick"]
    ELSE [clock |-> clock, outcome |-> "AttributeError"]

-----------------------------------------------------------------------------
(* WebSocketManager: one session and its streamed simulations *)

\* the configurations an INIT message can carry
StreamConfigs ==
    {[BaseConfig EXCEPT !.max_simulation_time = m, !.simulation_dt = d] :
        m \in {0, 10}, d \in {1, 2}}

MaxRuns == 2

\* asyncio.create_task(self._run_simulation(session)): the coroutine has not
\* run yet.  pc is the await the task is suspended at, steps the number of
\* engine.step() calls it has made, stopped whether _handle_stop has run
\* while it was the session's unfinished task.
NewTask(cfg) ==
    [pc |-> "created", cancelled |-> FALSE, config |-> cfg, clock |-> 0,
     steps |-> 0, stopped |-> FALSE]

Finished(t) == t.pc \in {"returned", "cancelled"}

\* variant: a stop that leaves the task alone
NoCancel(t) == t

\* session.task.cancel(): a request that takes effect when the task next runs
Cancel(t) == IF Finished(t) THEN t ELSE [t EXCEPT !.cancelled = TRUE]

\* the state changes of _handle_stop
StopSession(s) ==
    [s EXCEPT !.is_running = FALSE, !.is_paused = FALSE,
              !.tasks = IF s.task = 0 THEN @
                        ELSE [@ EXCEPT ![s.task] = Cancel(@)]]

\* engine.step() inside the try block of _run_simulation, up to the next
\* await: the sleep at the end of the iteration, or the send of the ERROR
\* message in the except block
Stepped(t) ==
    IF step(t.clock, t.config).outcome = "AttributeError"
    THEN [t EXCEPT !.steps = @ + 1, !.pc = "error"]
    ELSE [t EXCEPT !.steps = @ + 1, !.pc = "sleep",
                   !.clock = step(t.clock, t.config).clock]

\* from the top of the while loop of _run_simulation to the next await
LoopTop(t, s) ==
    IF ~(t.clock < t.config.max_simulation_time) THEN [t EXCEPT !.pc = "finishing"]
    ELSE IF ~s.is_running THEN [t EXCEPT !.pc = "stopping"]
    ELSE IF s.is_paused THEN [t EXCEPT !.pc = "paused"]
    ELSE Stepped(t)

\* the task after it is scheduled once: it runs from the await it is
\* suspended at to its next await.  A cancelled task gets CancelledError at
\* its await, which "except Exception" does not catch.
Resumed(t, s) ==
    IF t.cancelled THEN [t EXCEPT !.pc = "cancelled"]
    ELSE CASE t.pc = "created" -> [t EXCEPT !.pc = "log", !.config = s.config]
           [] t.pc \in {"log", "sleep"} -> LoopTop(t, s)
           [] t.pc = "paused" ->
                IF ~s.is_running THEN [t EXCEPT !.pc = "returned"]
                ELSE IF s.is_paused THEN t
                ELSE Stepped(t)
           [] t.pc = "finishing" -> [t EXCEPT !.pc = "completing"]
           [] OTHER -> [t EXCEPT !.pc = "returned"]

\* session.is_running = False before COMPLETE is sent and after ERROR is sent
ClearsRunning(t) == ~t.cancelled /\ t.pc \in {"finishing", "error"}

InitStream ==
    /\ config = BaseConfig
    /\ spawn_schedule = <<>>
    /\ pc = "stream"
    /\ cursor = 1
    /\ current_time = 0
    /\ vehicle_id_counter = 0
    /\ spawn_idx = 0
    /\ veh = <<>>
    /\ vehicles = <<>>
    /\ finished_vehicles = <<>>
    /\ active_vehicles = <<>>
    /\ blocked_lanes = [l \in Lanes(BaseConfig) |-> {}]
    /\ index = EmptyIndex
    /\ anomaly_logs = <<>>
    /\ transactions = <<>>
    /\ noise_events = <<>>
    /\ total_processed = 0
    /\ raw_count = <<>>
    /\ rules = create_default_rules
    /\ event_history = <<>>
    /\ trace = <<>>
    /\ session = NoSession
    /\ context = <<>>
    /\ detector = NewDetector
    /\ manager = NewManager

\* everything but the session
nonSessionVars ==
    <<config, pc, cursor, current_time, vehicle_id_counter, spawn_schedule,
      spawn_idx, veh, vehicles, finished_vehicles, active_vehicles,
      blocked_lanes, index, anomaly_logs, transactions, noise_events,
      total_processed, raw_count, rules, event_history, trace, context,
      detector, manager>>

\* WebSocketManager._handle_init
HandleInit ==
    /\ pc = "stream"
    /\ \E cfg \in StreamConfigs : session' = [session EXCEPT !.config = cfg]
    /\ UNCHANGED nonSessionVars

\* WebSocketManager._handle_start
HandleStart ==
    /\ pc = "stream"
    /\ ~session.is_running
    /\ Len(session.tasks) < MaxRuns
    /\ session' = [session EXCEPT !.is_running = TRUE, !.is_paused = FALSE,
                                  !.tasks = Append(@, NewTask(session.config)),
                                  !.task = Len(session.tasks) + 1]
    /\ UNCHANGED nonSessionVars

\* WebSocketManager._handle_pause
HandlePause ==
    /\ pc = "stream"
    /\ session.is_running /\ ~session.is_paused
    /\ session' = [session EXCEPT !.is_paused = TRUE]
    /\ UNCHANGED nonSessionVars

\* WebSocketManager._handle_resume
HandleResume ==
    /\ pc = "stream"
    /\ session.is_running /\ session.is_paused
    /\ session' = [session EXCEPT !.is_paused = FALSE]
    /\ UNCHANGED nonSessionVars

\* WebSocketManager._handle_stop; the unfinished task of the session is
\* marked as stopped
HandleStop ==
    /\ pc = "stream"
    /\ session' =
          [StopSession(session) EXCEPT
             !.tasks = [i \in 1..Len(session.tasks) |->
                          IF i = session.task /\ ~Finished(session.tasks[i])
                          THEN [StopSession(session).tasks[i] EXCEPT !.stopped = TRUE]
                          ELSE StopSession(session).tasks[i]]]
    /\ UNCHANGED nonSessionVars

\* the event loop schedules task i once
TaskRun(i) ==
    /\ pc = "stream"
    /\ ~Finished(session.tasks[i])
    /\ session' = [session EXCEPT
                     !.tasks[i] = Resumed(session.tasks[i], session),
                     !.is_running = IF ClearsRunning(session.tasks[i])
                                    THEN FALSE ELSE @]
    /\ UNCHANGED nonSessionVars

NextStream ==
    \/ HandleInit
    \/ HandleStart
    \/ HandlePause
    \/ HandleResume
    \/ HandleStop
    \/ \E i \in 1..Len(session.tasks) : TaskRun(i)

SpecStream == InitStream /\ [][NextStream]_vars

-----------------------------------------------------------------------------
(* WebSocketManager: several connections and the session table *)

\* the session ids of the websocket URLs
SessionIds == {"S", "T"}

MaxConnections == 2

MaxStarts == 2

\* the simulation tasks created so far, over all connections
Tasks(m) ==
    {ki \in (1..Len(m.connections)) \X (1..MaxStarts) :
        ki[2] <= Len(m.connections[ki[1]].session.tasks)}

\* the state changes of _handle_start on a session that is not running
StartSession(s) ==
    [s EXCEPT !.is_running = TRUE, !.is_paused = FALSE,
              !.tasks = Append(@, NewTask(s.config)),
              !.task = Len(s.tasks) + 1]

\* del self.sessions[session_id]
Deleted(sessions, session_id) ==
    [sid \in DOMAIN sessions \ {session_id} |-> sessions[sid]]

\* WebSocketManager._end_session: the session the table holds under the id is
\* stopped and leaves the table; nothing happens when the id is not there
end_session(m, session_id) ==
    IF session_id \in DOMAIN m.sessions
    THEN [m EXCEPT !.connections[m.sessions[session_id]].session = StopSession(@),
                   !.sessions = Deleted(@, session_id)]
    ELSE m

InitSessions ==
    /\ config = BaseConfig
    /\ spawn_schedule = <<>>
    /\ pc = "sessions"
    /\ cursor = 1
    /\ current_time = 0
    /\ vehicle_id_counter = 0
    /\ spawn_idx = 0
    /\ veh = <<>>
    /\ vehicles = <<>>
    /\ finished_vehicles = <<>>
    /\ active_vehicles = <<>>
    /\ blocked_lanes = [l \in Lanes(BaseConfig) |-> {}]
    /\ index = EmptyIndex
    /\ anomaly_logs = <<>>
    /\ transactions = <<>>
    /\ noise_events = <<>>
    /\ total_processed = 0
    /\ raw_count = <<>>
    /\ rules = create_default_rules
    /\ event_history = <<>>
    /\ trace = <<>>
    /\ session = NoSession
    /\ context = <<>>
    /\ detector = NewDetector
    /\ manager = NewManager

\* everything but the manager
nonManagerVars ==
    <<config, pc, cursor, current_time, vehicle_id_counter, spawn_schedule,
      spawn_idx, veh, vehicles, finished_vehicles, active_vehicles,
      blocked_lanes, index, anomaly_logs, transactions, noise_events,
      total_processed, raw_count, rules, event_history, trace, session,
      context, detector>>

\* WebSocketManager.handle_session up to its first receive_json: a new
\* SimulationSession is stored under the session id of the URL
Connect(session_id) ==
    /\ pc = "sessions"
    /\ Len(manager.connections) < MaxConnections
    /\ manager' =
          [connections |-> Append(manager.connections,
                                  [session_id |-> session_id, open |-> TRUE,
                                   session |-> NoSession]),
           sessions |-> (session_id :> (Len(manager.connections) + 1))
                           @@ manager.sessions]
    /\ UNCHANGED nonManagerVars

\* a START message on connection k: _handle_session_message, _handle_start
SessionStart(k) ==
    /\ pc = "sessions"
    /\ manager.connections[k].open
    /\ ~manager.connections[k].session.is_running
    /\ Cardinality(Tasks(manager)) < MaxStarts
    /\ manager' = [manager EXCEPT !.connections[k].session = StartSession(@)]
    /\ UNCHANGED nonManagerVars

\* a STOP message on connection k: _handle_session_message, _handle_stop
SessionStop(k) ==
    /\ pc = "sessions"
    /\ manager.connections[k].open
    /\ manager' = [manager EXCEPT !.connections[k].session = StopSession(@)]
    /\ UNCHANGED nonManagerVars

\* WebSocketDisconnect in the handle_session call of connection k
Disconnect(k) ==
    /\ pc = "sessions"
    /\ manager.connections[k].open
    /\ manager' = [end_session(manager, manager.connections[k].session_id)
                      EXCEPT !.connections[k].open = FALSE]
    /\ UNCHANGED nonManagerVars

\* the event loop schedules task i of the session of connection k once
SessionTaskRun(k, i) ==
    /\ pc = "sessions"
    /\ ~Finished(manager.connections[k].session.tasks[i])
    /\ manager' =
          [manager EXCEPT
             !.connections[k].session =
                [@ EXCEPT !.tasks[i] = Resumed(@, manager.connections[k].session),
                          !.is_running =
                             IF ClearsRunning(manager.connections[k].session.tasks[i])
                             THEN FALSE ELSE @]]
    /\ UNCHANGED nonManagerVars

NextSessions ==
    \/ \E session_id \in SessionIds : Connect(session_id)
    \/ \E k \in 1..Len(manager.connections) : SessionStart(k)
    \/ \E k \in 1..Len(manager.connections) : SessionStop(k)
    \/ \E k \in 1..Len(manager.connections) : Disconnect(k)
    \/ \E k \in 1..Len(manager.connections) :
          \E i \in 1..Len(manager.connections[k].session.tasks) : SessionTaskRun(k, i)

SpecSessions == InitSessions /\ [][NextSessions]_vars

-----------------------------------------------------------------------------
(* Properties *)

\* C1: under SpecRules (context times that never go back, no reset, no rule
\* replaced) any two events of one rule lie at least the rule's cooldown_s
\* apart, whatever the conditions evaluate to.
C1_CooldownSpacing ==
    \A i, j \in 1..Len(event_history) :
       i < j /\ event_history[i].rule_name = event_history[j].rule_name =>
          \A k \in 1..Len(rules) :
             rules[k].name = event_history[i].rule_name =>
                event_history[j].timestamp - event_history[i].timestamp
                   >= rules[k].cooldown_s

\* a rule has fired twice, the second time exactly when its cooldown ended
C1_FiredTwice ==
    \E i, j \in 1..Len(event_history) : \E k \in 1..Len(rules) :
       /\ i < j
       /\ event_history[i].rule_name = rules[k].name
       /\ event_history[j].rule_name = rules[k].name
       /\ event_history[j].timestamp - event_history[i].timestamp = rules[k].cooldown_s

\* C2: a vehicle is finalized exactly once, in the tick that flags it:
\* finished_vehicles never holds a vehicle twice; a flagged vehicle not yet
\* moved was flagged in the running tick; at every tick boundary each vehicle
\* is in exactly one of the two lists, in finished_vehicles iff it is flagged,
\* and a flagged vehicle's segment index has reached num_segments.
C2_FinalizedOnce ==
    /\ \A i, j \in 1..Len(finished_vehicles) :
          finished_vehicles[i] = finished_vehicles[j] => i = j
    /\ \A id \in DOMAIN veh :
          veh[id].finished =>
             /\ veh[id].pos \div SegLen(config) >= num_segments(config)
             /\ id \notin Range(finished_vehicles) =>
                   veh[id].exit_time = current_time /\ pc \notin {"spawn", "done"}
    /\ pc \in {"spawn", "done"} =>
          /\ Range(vehicles) \cap Range(finished_vehicles) = {}
          /\ Range(vehicles) \cup Range(finished_vehicles) = DOMAIN veh
          /\ \A id \in DOMAIN veh :
                id \in Range(finished_vehicles) <=> veh[id].finished

\* the run has ended with the vehicle finalized and the list of vehicles empty
C2_RunCompleted ==
    /\ pc = "done"
    /\ vehicles = <<>>
    /\ Len(finished_vehicles) = 1
    /\ veh[finished_vehicles[1]].exit_time = current_time - config.simulation_dt

\* C3: _process_etc_transaction is called at most once per vehicle and gate,
\* however many ticks the vehicle spends in the gate's window.
C3_OneRawTransaction == \A p \in DOMAIN raw_count : raw_count[p] <= 1

\* the gantry loop meets a vehicle that is in the window of a gate for the
\* second tick, its transaction already made
C3_SecondTickInWindow ==
    /\ pc = "gantry"
    /\ \E km \in EtcGates(config) :
          /\ InGateWindow(veh[active_vehicles[cursor]], km)
          /\ raw_count[<<active_vehicles[cursor], km>>] = 1

\* C5: every vehicle's lane is a lane of the road, 0 <= lane < num_lanes,
\* after spawn, free lane change and forced lane change.
C5_LaneInRange ==
    \A id \in DOMAIN veh : 0 <= veh[id].lane /\ veh[id].lane < config.num_lanes

\* a vehicle has completed a lane change away from a stopped vehicle ahead
C5_ChangedLane ==
    \E id \in DOMAIN veh : \E o \in DOMAIN veh :
       /\ veh[id].lane_changes > 0
       /\ ~veh[id].lane_changing
       /\ veh[id].lane # veh[id].lane_change_start_lane
       /\ veh[o].anomaly_type = 1
       /\ veh[o].anomaly_trigger_time >= 0
       /\ veh[o].anomaly_trigger_time <= veh[id].lane_change_start_time
       /\ veh[o].lane = veh[id].lane_change_start_lane
       /\ veh[o].pos > veh[id].lane_change_start_pos
       /\ veh[o].pos - veh[id].lane_change_start_pos < config.forced_change_dist * U

\* C6: at every tick every vehicle, a just-spawned one included, has
\* 0 <= speed <= 1.1 * v0.
C6_SpeedWithinCap ==
    \A id \in DOMAIN veh : 0 <= veh[id].speed /\ veh[id].speed <= SpeedCap(veh[id])

\* C6, for the vehicles update has handled: every vehicle that has been
\* through update since its spawn has 0 <= speed <= 1.1 * v0.
C6_UpdatedSpeedWithinCap ==
    \A id \in DOMAIN veh :
       (\/ veh[id].entry_time < current_time
        \/ pc \in {"gantry", "trajectory", "rules", "finalize", "done"}
        \/ pc = "update" /\ \E i \in 1..(cursor - 1) : active_vehicles[i] = id)
       => 0 <= veh[id].speed /\ veh[id].speed <= SpeedCap(veh[id])

\* a vehicle spawned above its cap has been brought down to it by update
C6_CappedByUpdate ==
    \E id \in DOMAIN veh :
       /\ veh[id].pos > 0
       /\ veh[id].speed = SpeedCap(veh[id])
       /\ SpeedCap(veh[id]) < KmH(110)

\* C7: the ids of the vehicles of both lists are pairwise distinct and are
\* exactly 0 .. vehicle_id_counter - 1; a deferred spawn takes no id, so the
\* counter equals the number of spawns placed.
C7_DenseIds ==
    /\ \A i, j \in 1..Len(vehicles \o finished_vehicles) :
          (vehicles \o finished_vehicles)[i] = (vehicles \o finished_vehicles)[j]
             => i = j
    /\ Range(vehicles \o finished_vehicles) = 0..(vehicle_id_counter - 1)
    /\ vehicle_id_counter = spawn_idx

\* a spawn was deferred and both vehicles have been placed since
C7_DeferredThenPlaced ==
    /\ config = OneLane.cfg
    /\ spawn_schedule[2] > OneLane.schedule[2]
    /\ vehicle_id_counter = 2

\* C8: anomaly_logs grows only by the entry of a vehicle that goes from
\* normal to active in that step, the entry carrying the vehicle's id, its
\* anomaly_type and the time of the tick; every such transition appends
\* exactly one entry.
C8_LogsMatchActivations ==
    [][LET activated == {id \in DOMAIN veh :
                            /\ veh[id].anomaly_state # "active"
                            /\ veh'[id].anomaly_state = "active"}
       IN /\ Len(anomaly_logs') = Len(anomaly_logs) + Cardinality(activated)
          /\ \A k \in 1..Len(anomaly_logs) : anomaly_logs'[k] = anomaly_logs[k]
          /\ \A id \in activated :
                /\ veh[id].anomaly_state = "normal"
                /\ anomaly_logs'[Len(anomaly_logs')].id = id
                /\ anomaly_logs'[Len(anomaly_logs')].type = veh'[id].anomaly_type
                /\ anomaly_logs'[Len(anomaly_logs')].time = current_time]_vars

\* an activation has been logged: the vehicle of the entry is active with
\* the type and the trigger time of the entry
C8_ActivationLogged ==
    \E k \in 1..Len(anomaly_logs) :
       /\ veh[anomaly_logs[k].id].anomaly_state = "active"
       /\ veh[anomaly_logs[k].id].anomaly_type = anomaly_logs[k].type
       /\ veh[anomaly_logs[k].id].anomaly_trigger_time = anomaly_logs[k].time

\* the transactions of a vehicle at a gate that reached the detector
Reached(id, km) ==
    Len(SelectSeq(transactions, LAMBDA t : t.vehicle_id = id /\ t.gate_id = km))

\* the duplicate injector fired for the crossing of the gate by the vehicle
DuplicateFired(id, km) ==
    \E i \in 1..Len(noise_events) :
       /\ noise_events[i].type = "duplicate_read"
       /\ noise_events[i].vehicle_id = id
       /\ noise_events[i].gate_id = km

\* C9: per vehicle and gate, at most 1 transaction reaches the detector when
\* the duplicate injector does not fire for the crossing, and 0, 2 or 3 when
\* it fires; never more than 3.
C9_NoiseFanout ==
    \A p \in DOMAIN raw_count :
       /\ Reached(p[1], p[2]) <= 3
       /\ ~DuplicateFired(p[1], p[2]) => Reached(p[1], p[2]) <= 1
       /\ DuplicateFired(p[1], p[2]) => Reached(p[1], p[2]) \in {0, 2, 3}

\* one crossing was read three times, another crossing was dropped
C9_TripleAndMissed ==
    \E p \in DOMAIN raw_count : \E q \in DOMAIN raw_count :
       /\ DuplicateFired(p[1], p[2]) /\ Reached(p[1], p[2]) = 3
       /\ raw_count[q] = 1 /\ Reached(q[1], q[2]) = 0

\* the place of a kind of record in an order of the kinds
Place(order, kind) == CHOOSE i \in 1..Len(order) : order[i] = kind

Ordered(order) ==
    \A i, j \in 1..Len(trace) :
       i < j => Place(order, trace[i]) <= Place(order, trace[j])

C11_StepCompletesTick ==
    [][\A i \in 1..Len(session.tasks) :
          (/\ session'.tasks[i].steps = session.tasks[i].steps + 1
           /\ session.tasks[i].clock < session.tasks[i].config.max_simulation_time)
          => /\ session'.tasks[i].pc # "error"
             /\ session'.tasks[i].clock
                  = session.tasks[i].clock + session.tasks[i].config.simulation_dt]_vars

\* the first step() call of a streamed run has raised with the clock at 0
C11_FirstStepRaised ==
    \E i \in 1..Len(session.tasks) :
       /\ session.tasks[i].pc = "error"
       /\ session.tasks[i].steps = 1
       /\ session.tasks[i].clock = 0
       /\ session.tasks[i].config.max_simulation_time > 0

\* C12: run() terminates: the spawn loop of a tick ends, the main loop is
\* left no later than the first tick after which the clock exceeds
\* max_simulation_time, and so the run ends.
C12_RunTerminates ==
    /\ [](pc # "done" => current_time <= config.max_simulation_time)
    /\ (pc = "spawn" ~> pc # "spawn")
    /\ <>(pc = "done")

\* the run has ended by the clock, with a stopped vehicle still on the road
C12_EndedByClock ==
    /\ pc = "done"
    /\ current_time > config.max_simulation_time
    /\ \E i \in 1..Len(vehicles) :
          veh[vehicles[i]].anomaly_type = 1 /\ veh[vehicles[i]].anomaly_state = "active"

\* C13: once STOP has been handled for a running simulation task, that task
\* never calls engine.step() again and its engine's clock never changes.  A
\* tick is never cut in two: step() contains no await, so it is one step of
\* the task (Stepped) and no handler runs inside it.
C13_NoTickAfterStop ==
    [][\A i \in 1..Len(session.tasks) :
          session.tasks[i].stopped =>
             /\ session'.tasks[i].steps = session.tasks[i].steps
             /\ session'.tasks[i].clock = session.tasks[i].clock]_vars

\* a task that had called step() was stopped and ended by the cancellation,
\* and a task started afterwards has called step() itself
C13_StoppedThenRestarted ==
    \E i, j \in 1..Len(session.tasks) :
       /\ i < j
       /\ session.tasks[i].stopped
       /\ session.tasks[i].pc = "cancelled"
       /\ session.tasks[i].steps = 1
       /\ session.tasks[j].steps = 1

\* the step is a call of evaluate_all (enable_rule changes a flag)
EvaluateAllStep ==
    \A i \in 1..Len(rules) : rules'[i].enabled = rules[i].enabled

\* the call of evaluate_all of this step has added an event of rule i
FiredNow(i) ==
    \E k \in (Len(event_history) + 1)..Len(event_history') :
       event_history'[k].rule_name = rules[i].name

\* the condition values with every raising condition taken as false
RaisingAsFalse(r, vals) ==
    [k \in 1..Len(vals) |-> ~Raising(r.conditions[k]) /\ vals[k]]

\* C14: in a call of evaluate_all, a rule that reaches its conditions fires
\* exactly when the ALL/ANY composition of its condition values, with every
\* raising condition taken as false, is true.
C14_RaisingTakenAsFalse ==
    [][EvaluateAllStep =>
         \A i \in 1..Len(rules) :
            Evaluated(rules[i], current_time') =>
               (FiredNow(i) <=> Triggered(rules[i], RaisingAsFalse(rules[i], context'[i])))]_vars

\* evaluate_all was called at a time when every cooldown had elapsed, with
\* the speed condition of the ANY rule true and its occupancy condition
\* raising first: the rule has never fired, while the rule after it, whose
\* condition was true, fired in that call
C14_AnyRuleSilenced ==
    /\ context # <<>>
    /\ current_time >= 60
    /\ context[1][2]
    /\ \A k \in 1..Len(event_history) : event_history[k].rule_name # rules[1].name
    /\ \A i \in 1..Len(rules) : rules[i].enabled
    /\ \E k \in 1..Len(event_history) :
          /\ event_history[k].rule_name = rules[3].name
          /\ event_history[k].timestamp = current_time
    /\ rules[1].name = "occupancy_or_speed"

\* num_lanes < 1, segment_length_km <= 0 or a negative probability
Invalid(c) == c.num_lanes < 1 \/ c.segment_length_km <= 0 \/ c.anomaly_ratio < 0

\* C15: an engine with an invalid configuration never executes a tick: it
\* does not get past the state it is constructed in.
C15_InvalidNeverRuns ==
    Invalid(config) =>
       pc = "spawn" /\ current_time = 0 /\ spawn_idx = 0 /\ vehicles = <<>>

\* a run with a negative anomaly_ratio has spawned its vehicle and ended by
\* the clock
C15_InvalidRunCompleted ==
    /\ Invalid(config)
    /\ pc = "done"
    /\ Len(vehicles) + Len(finished_vehicles) = 1
    /\ current_time > config.max_simulation_time

\* the vehicles get_nearby_vehicles gives to the update of vehicle id
Neighbours(id) == get_nearby_vehicles(index, veh[id], veh, RANGE_CELLS, config)

\* C16: the update of a vehicle starts a lane change only if one of its
\* neighbours is ahead of it in its own lane.
C16_LeaderNeeded ==
    [][pc = "update" =>
         (veh'[active_vehicles[cursor]].lane_changes
             > veh[active_vehicles[cursor]].lane_changes =>
          \E k \in 1..Len(Neighbours(active_vehicles[cursor])) :
             /\ Neighbours(active_vehicles[cursor])[k].lane
                  = veh[active_vehicles[cursor]].lane
             /\ Neighbours(active_vehicles[cursor])[k].pos
                  > veh[active_vehicles[cursor]].pos)]_vars

\* the vehicle just updated has a stopped vehicle close ahead in the other
\* lane and none ahead in its own, and has never started a lane change
C16_FreeLaneKept ==
    /\ pc = "update"
    /\ cursor > 1
    /\ \E o \in DOMAIN veh :
          /\ o # active_vehicles[cursor - 1]
          /\ ~veh[o].finished
          /\ veh[o].anomaly_type = 1
          /\ veh[o].anomaly_state = "active"
          /\ veh[o].lane # veh[active_vehicles[cursor - 1]].lane
          /\ veh[o].pos > veh[active_vehicles[cursor - 1]].pos
          /\ veh[o].pos - veh[active_vehicles[cursor - 1]].pos < 100 * U
    /\ \A o \in DOMAIN veh :
          veh[o].lane = veh[active_vehicles[cursor - 1]].lane =>
             veh[o].pos <= veh[active_vehicles[cursor - 1]].pos
    /\ veh[active_vehicles[cursor - 1]].lane_changes = 0
    /\ veh[active_vehicles[cursor - 1]].speed > 0

\* the segment record_time is called with for the vehicle at the cursor
ObservedSegment == veh[active_vehicles[cursor]].pos \div SegLen(config)

\* C17: the log of a vehicle has one entry per segment record_time has
\* observed it in: the call for a segment of the road adds the entry of that
\* segment if there is none and keeps the 'in' time of every entry there is,
\* and in every entry out >= in.
C17_OneEntryPerSegment ==
    /\ [](\A id \in DOMAIN veh : \A s \in DOMAIN veh[id].logs :
             veh[id].logs[s].out >= veh[id].logs[s].in)
    /\ [][(pc = "update" \/ pc = "segments") =>
            /\ DOMAIN veh'[active_vehicles[cursor]].logs
                 = DOMAIN veh[active_vehicles[cursor]].logs
                     \cup (IF ObservedSegment < num_segments(config)
                           THEN {ObservedSegment} ELSE {})
            /\ \A s \in DOMAIN veh[active_vehicles[cursor]].logs :
                  veh'[active_vehicles[cursor]].logs[s].in
                     = veh[active_vehicles[cursor]].logs[s].in]_vars

\* the y coordinate _send_snapshot_from_engine gives the vehicle
SnapshotY(v) == v.lane * LANE_WIDTH + LANE_WIDTH \div 2 + v.lateral

\* C18: a vehicle that is not changing lane has the lateral offset 0, so
\* that it is drawn at the centre of its lane.
C18_CentredWhenNotChanging ==
    \A id \in DOMAIN veh :
       ~veh[id].lane_changing =>
          /\ veh[id].lateral = 0
          /\ SnapshotY(veh[id]) = veh[id].lane * LANE_WIDTH + LANE_WIDTH \div 2

\* a vehicle has completed a lane change and keeps half a lane width of
\* offset: it is drawn on the edge of the lane it has reached
C18_OffsetKept ==
    \E id \in DOMAIN veh :
       /\ ~veh[id].lane_changing
       /\ veh[id].lane_changes = 1
       /\ veh[id].lane = veh[id].lane_change_end_lane
       /\ veh[id].lane # veh[id].lane_change_start_lane
       /\ veh[id].lateral # 0
       /\ SnapshotY(veh[id]) \in {veh[id].lane * LANE_WIDTH,
                                  (veh[id].lane + 1) * LANE_WIDTH}

\* the number of updates a vehicle of type 2 (10 s) or 3 (20 s) is active for
ActiveTicks(type, dt) == ((IF type = 2 THEN 10 ELSE 20) + dt - 1) \div dt

\* the clock of the tick in which a vehicle activated at trigger_time enters
\* the cooling state
CoolingFrom(v, dt) ==
    v.anomaly_trigger_time + (ActiveTicks(v.anomaly_type, dt) - 1) * dt

\* C19: from one tick to the next the anomaly state of a vehicle stays, or
\* goes from normal to active, from active to cooling (types 2 and 3 only,
\* in the tick its 10 s or 20 s of activity end) or from cooling to normal
\* (in the 1000th tick after the one it entered cooling in, neither before
\* nor after); a type-1 vehicle stays active, and a non-zero anomaly type
\* never changes.
C19_AnomalyStateMachine ==
    /\ [][\A id \in DOMAIN veh :
            /\ veh[id].anomaly_type # 0 =>
                  veh'[id].anomaly_type = veh[id].anomaly_type
            /\ veh[id].anomaly_state = "normal" =>
                  veh'[id].anomaly_state \in {"normal", "active"}
            /\ veh[id].anomaly_state = "active" =>
                  /\ veh'[id].anomaly_state \in {"active", "cooling"}
                  /\ veh'[id].anomaly_state = "cooling" =>
                        /\ veh[id].anomaly_type \in {2, 3}
                        /\ current_time = CoolingFrom(veh[id], config.simulation_dt)
            /\ veh[id].anomaly_state = "cooling" =>
                  /\ veh'[id].anomaly_state \in {"cooling", "normal"}
                  /\ veh'[id].anomaly_state = "normal" =>
                        current_time = CoolingFrom(veh[id], config.simulation_dt)
                                          + 1000 * config.simulation_dt]_vars
    /\ [](\A id \in DOMAIN veh :
            ~veh[id].finished =>
               /\ veh[id].anomaly_state = "active" /\ veh[id].anomaly_type \in {2, 3} =>
                     current_time <= CoolingFrom(veh[id], config.simulation_dt)
               /\ veh[id].anomaly_state = "cooling" =>
                     current_time <= CoolingFrom(veh[id], config.simulation_dt)
                                        + 1000 * config.simulation_dt)

\* a vehicle of type 3 is back to normal in the tick after its 1000 ticks of
\* cooling, with its type kept
C19_BackToNormal ==
    /\ pc = "lone"
    /\ veh[0].anomaly_type = 3
    /\ veh[0].anomaly_state = "normal"
    /\ current_time = CoolingFrom(veh[0], config.simulation_dt)
                         + 1000 * config.simulation_dt + config.simulation_dt

\* C20: a vehicle is activated, for the first time or again, only if it was
\* flagged at spawn, the clock has reached global_anomaly_start and the
\* vehicle has been on the road for vehicle_safe_run_time; every logged
\* activation is of such a vehicle at such a time.
C20_ActivationPreconditions ==
    /\ [][\A id \in DOMAIN veh :
            veh'[id].anomaly_state = "active" /\ veh[id].anomaly_state # "active" =>
               /\ veh[id].is_potential_anomaly
               /\ current_time >= config.global_anomaly_start
               /\ current_time - veh[id].entry_time >= config.vehicle_safe_run_time]_vars
    /\ [](\A k \in 1..Len(anomaly_logs) :
            /\ veh[anomaly_logs[k].id].is_potential_anomaly
            /\ anomaly_logs[k].time >= config.global_anomaly_start
            /\ anomaly_logs[k].time - veh[anomaly_logs[k].id].entry_time
                  >= config.vehicle_safe_run_time)

\* a vehicle has been activated, has cooled down and has been activated again
C20_ActivatedAgain ==
    /\ pc = "lone"
    /\ Len(anomaly_logs) = 2
    /\ veh[0].anomaly_state = "active"
    /\ veh[0].anomaly_trigger_time = anomaly_logs[2].time
    /\ anomaly_logs[2].time > anomaly_logs[1].time + 1000 * config.simulation_dt

\* the vehicle has been observed in segment 0, then in segment 1, then in
\* segment 0 again and then in segment 1 again: each of the two has one
\* entry, with the time it was first entered and the time it was last left
C17_BackAcrossBoundary ==
    /\ pc = "segments"
    /\ current_time = 12
    /\ DOMAIN veh[0].logs = {0, 1}
    /\ veh[0].logs[0] = [in |-> 0, out |-> 8]
    /\ veh[0].logs[1] = [in |-> 4, out |-> 10]
    /\ veh[0].current_segment = 1

\* C21: a vehicle is created only by the spawn loop, at position 0, for the
\* head entry of the schedule and in a lane in which no vehicle of the engine
\* (one created earlier in the tick included) is within the first 50 m; while
\* every lane is taken no vehicle is created, a due head entry moves to a
\* later time, and the loop is left only with the head entry after the clock.
C21_SpawnAdmission ==
    [][/\ Len(vehicles') > Len(vehicles) =>
             /\ pc = "spawn"
             /\ vehicles' = Append(vehicles, spawn_idx)
             /\ spawn_idx' = spawn_idx + 1
             /\ spawn_schedule' = spawn_schedule
             /\ veh'[spawn_idx].pos = 0
             /\ veh'[spawn_idx].entry_time = current_time
             /\ veh'[spawn_idx].lane \in Lanes(config)
             /\ \A i \in 1..Len(vehicles) :
                   ~(/\ veh[vehicles[i]].lane = veh'[spawn_idx].lane
                     /\ veh[vehicles[i]].pos < 50 * U)
       /\ (/\ pc = "spawn"
           /\ \A l \in Lanes(config) : \E i \in 1..Len(vehicles) :
                 veh[vehicles[i]].lane = l /\ veh[vehicles[i]].pos < 50 * U) =>
             /\ vehicles' = vehicles
             /\ spawn_idx' = spawn_idx
             /\ SpawnDue => spawn_schedule'[spawn_idx + 1] > spawn_schedule[spawn_idx + 1]
       /\ (pc = "spawn" /\ pc' # "spawn" /\ spawn_idx < Len(spawn_schedule)) =>
             spawn_schedule[spawn_idx + 1] > current_time
      ]_vars

\* the third entry, due with the second, has been moved behind the clock in
\* the tick that created the second vehicle
C21_DeferredBehindEarlier ==
    /\ config = Crowded.cfg
    /\ pc = "spawn"
    /\ spawn_idx = 2
    /\ veh[1].entry_time = current_time
    /\ veh[1].pos = 0
    /\ spawn_schedule[3] > current_time

\* C22: a lane change takes five updates of the vehicle, the one that starts
\* it included: the update that starts it is step 1, every update of a
\* changing vehicle adds one step, the lane stays the origin lane up to step
\* 4 and becomes the target lane at step 5, where lane_changing is cleared
\* and the cooldown is set to 5 s; a changing vehicle starts no lane change.
C22_FiveStepProtocol ==
    /\ [](\A id \in DOMAIN veh :
            veh[id].lane_changing =>
               /\ veh[id].lane_change_step \in 1..4
               /\ veh[id].lane = veh[id].lane_change_start_lane)
    /\ [][\A id \in DOMAIN veh :
            /\ (/\ pc = "update"
                /\ id = active_vehicles[cursor]
                /\ veh[id].lane_changing) =>
                  /\ veh'[id].lane_change_step = veh[id].lane_change_step + 1
                  /\ veh'[id].lane_changes = veh[id].lane_changes
                  /\ veh'[id].lane_change_start_lane = veh[id].lane_change_start_lane
                  /\ veh'[id].lane_change_end_lane = veh[id].lane_change_end_lane
                  /\ IF veh[id].lane_change_step = 4
                     THEN /\ veh'[id].lane = veh[id].lane_change_end_lane
                          /\ ~veh'[id].lane_changing
                          /\ veh'[id].lane_change_cooldown = 5
                     ELSE /\ veh'[id].lane = veh[id].lane
                          /\ veh'[id].lane_changing
            /\ (~veh[id].lane_changing /\ veh'[id].lane_changing) =>
                  /\ veh'[id].lane_change_step = 1
                  /\ veh'[id].lane = veh[id].lane
                  /\ veh'[id].lane_change_start_lane = veh[id].lane
                  /\ veh'[id].lane_changes = veh[id].lane_changes + 1
            /\ veh'[id].lane # veh[id].lane =>
                  veh[id].lane_changing /\ veh[id].lane_change_step = 4
            /\ veh'[id].lane_changes # veh[id].lane_changes =>
                  ~veh[id].lane_changing /\ veh'[id].lane_changing
         ]_vars

\* a vehicle has just taken the fifth step of a lane change
C22_FifthStepTaken ==
    \E id \in DOMAIN veh :
       /\ ~veh[id].lane_changing
       /\ veh[id].lane_change_step = LANE_CHANGE_STEPS
       /\ veh[id].lane = veh[id].lane_change_end_lane
       /\ veh[id].lane # veh[id].lane_change_start_lane
       /\ veh[id].lane_change_cooldown = LANE_CHANGE_COOLDOWN

\* C23: the update that ends a lane change of a vehicle runs four ticks
\* after the update that started it, and an update that starts a further
\* lane change of the vehicle runs at least 5 s of simulated time (5 / dt
\* ticks) after the update that ended the previous one.
C23_CooldownBetweenChanges ==
    [][\A id \in DOMAIN veh :
         /\ (veh[id].lane_changing /\ ~veh'[id].lane_changing) =>
               current_time = veh[id].lane_change_start_time
                                + (LANE_CHANGE_STEPS - 1) * config.simulation_dt
         /\ (veh[id].lane_changes >= 1
             /\ veh'[id].lane_changes > veh[id].lane_changes) =>
               /\ ~veh[id].lane_changing
               /\ current_time
                    - (veh[id].lane_change_start_time
                         + (LANE_CHANGE_STEPS - 1) * config.simulation_dt) >= 5
               /\ (current_time
                    - (veh[id].lane_change_start_time
                         + (LANE_CHANGE_STEPS - 1) * config.simulation_dt))
                    \div config.simulation_dt >= 5 \div config.simulation_dt
      ]_vars

\* the vehicle has ended a lane change beside a stopped vehicle with another
\* stopped vehicle within 200 m ahead in its new lane, and has started its
\* second lane change since
C23_SecondChangeAfterWait ==
    /\ pc = "obstacles"
    /\ veh[0].lane_changes = 2
    /\ \E o \in {1, 2} :
          /\ veh[o].lane = veh[0].lane_change_start_lane
          /\ veh[o].pos > veh[0].lane_change_start_pos
          /\ veh[o].pos - veh[0].lane_change_start_pos < 200 * U

\* the vehicles and the index as the update of the k-th vehicle of the tick
\* finds them: the vehicles in front of it in the loop have been updated
SeenBy(k) ==
    UpdateLoop(SubSeq(SortByPos(vehicles, veh), 1, k - 1), veh,
               rebuild(SortByPos(vehicles, veh), veh, config),
               BlockedLanes(SortByPos(vehicles, veh), veh, config),
               current_time, config)

\* the neighbours get_nearby_vehicles returns to the vehicle id, the k-th
\* of the tick
NearbyAt(k, id) ==
    get_nearby_vehicles(SeenBy(k).idx, SeenBy(k).vs[id], SeenBy(k).vs,
                        RANGE_CELLS, config)

\* the vehicle id, the k-th of the tick, is not changing lane, its cooldown
\* has elapsed, its leader is an active anomaly of type 1 within
\* forced_change_dist, and the adjacent lane cand passes the range test and
\* _can_change_to
MustChangeTo(k, id, cand) ==
    /\ ~veh[id].lane_changing
    /\ veh[id].lane_change_cooldown <= 0
    /\ find_leader(veh[id], NearbyAt(k, id)) # NoVehicle
    /\ find_leader(veh[id], NearbyAt(k, id))[1].anomaly_type = 1
    /\ find_leader(veh[id], NearbyAt(k, id))[1].anomaly_state = "active"
    /\ find_leader(veh[id], NearbyAt(k, id))[1].pos - veh[id].pos
          < config.forced_change_dist * U
    /\ cand \in {veh[id].lane - 1, veh[id].lane + 1}
    /\ 0 <= cand /\ cand < config.num_lanes
    /\ can_change_to(veh[id], cand, NearbyAt(k, id),
                     BlockedLanes(SortByPos(vehicles, veh), veh, config), config)

\* C24: a vehicle that is not changing lane, whose cooldown has elapsed and
\* whose leader is a stopped vehicle of type 1 within forced_change_dist
\* starts, in the tick, a lane change to an adjacent lane that passes the
\* feasibility test whenever there is such a lane.
C24_ForcedChangeWithin400 ==
    [][pc = "obstacles" =>
         \A k \in 1..Len(vehicles) :
            (\E cand \in Lanes(config) :
                MustChangeTo(k, SortByPos(vehicles, veh)[k], cand)) =>
               /\ veh'[SortByPos(vehicles, veh)[k]].lane_changing
               /\ MustChangeTo(k, SortByPos(vehicles, veh)[k],
                               veh'[SortByPos(vehicles, veh)[k]].lane_change_end_lane)
      ]_vars

\* the vehicle has been updated with a stopped vehicle of type 1 among its
\* neighbours, between 200 m and 400 m ahead in its lane, and with no vehicle
\* at all in an adjacent lane, and has started no lane change
C24_KeptLaneBehindObstacle ==
    /\ pc = "obstacles"
    /\ current_time > 0
    /\ veh[0].lane_changes = 0
    /\ \E o \in {1, 2} :
          /\ veh[o].lane = veh[0].lane
          /\ veh[o].anomaly_type = 1
          /\ veh[o].anomaly_state = "active"
          /\ veh[o].pos - veh[0].pos >= 200 * U
          /\ veh[o].pos - (veh[0].pos - veh[0].speed * config.simulation_dt)
                < config.forced_change_dist * U
          /\ get_cell_idx(veh[o].pos, config)
               - get_cell_idx(veh[0].pos - veh[0].speed * config.simulation_dt, config)
                <= RANGE_CELLS
          /\ \A p \in {1, 2} : p # o => veh[p].pos > veh[o].pos
    /\ \E cand \in {veh[0].lane - 1, veh[0].lane + 1} :
          /\ cand \in Lanes(config)
          /\ \A p \in {1, 2} : veh[p].lane # cand

\* the number of times id occurs in the lists of the grid
RECURSIVE Occurrences(_, _)
Occurrences(grid, id) ==
    IF DOMAIN grid = {} THEN 0
    ELSE LET key == CHOOSE k \in DOMAIN grid : TRUE
         IN Len(SelectSeq(grid[key], LAMBDA vid : vid = id))
              + Occurrences([k \in DOMAIN grid \ {key} |-> grid[k]], id)

\* C25: whatever calls have been made on the index, every id of the reverse
\* map _vehicle_cells is exactly once in the grid, in the list of the key the
\* reverse map has for it, and an id outside the reverse map is in no list.
C25_GridMatchesReverseMap ==
    pc \in {"index", "rebuilt"} =>
       /\ \A id \in DOMAIN index.cells :
             /\ Occurrences(index.grid, id) = 1
             /\ \E i \in 1..Len(Cell(index.grid, index.cells[id])) :
                   Cell(index.grid, index.cells[id])[i] = id
       /\ \A id \in DOMAIN veh :
             id \notin DOMAIN index.cells => Occurrences(index.grid, id) = 0

\* a vehicle added twice and removed once: the reverse map has lost its id,
\* a list of the grid still has it
C25_GhostAfterRemove ==
    /\ pc = "index"
    /\ \E id \in DOMAIN veh :
          /\ id \notin DOMAIN index.cells
          /\ id \notin index.vehicles
          /\ Occurrences(index.grid, id) = 1

\* C26: on an index that was rebuilt and has since only seen update_vehicle
\* calls, get_nearby_vehicles(v, k) returns, each once, the vehicles of the
\* reverse map other than v whose recorded lane is in range(num_lanes) and
\* whose recorded cell is at most k cells from the cell of v's position.
C26_NearbyExact ==
    pc = "rebuilt" =>
       \A id \in DOMAIN veh, k \in 0..1 :
          /\ {get_nearby_vehicles(index, veh[id], veh, k, config)[i].id :
                 i \in 1..Len(get_nearby_vehicles(index, veh[id], veh, k, config))}
               = {o \in DOMAIN index.cells :
                     /\ o # id
                     /\ index.cells[o][1] \in 0..(config.num_lanes - 1)
                     /\ index.cells[o][2] - get_cell_idx(veh[id].pos, config) <= k
                     /\ get_cell_idx(veh[id].pos, config) - index.cells[o][2] <= k}
          /\ \A i, j \in 1..Len(get_nearby_vehicles(index, veh[id], veh, k, config)) :
                get_nearby_vehicles(index, veh[id], veh, k, config)[i].id
                   = get_nearby_vehicles(index, veh[id], veh, k, config)[j].id => i = j
          /\ \A i \in 1..Len(get_nearby_vehicles(index, veh[id], veh, k, config)) :
                get_nearby_vehicles(index, veh[id], veh, k, config)[i]
                   = veh[get_nearby_vehicles(index, veh[id], veh, k, config)[i].id]

\* both vehicles are indexed, vehicle 0 has moved to another cell since the
\* index recorded it, and vehicle 1 is returned to it for k = 1 but not for
\* k = 0
C26_NeighbourOneCellAway ==
    /\ pc = "rebuilt"
    /\ DOMAIN index.cells = {0, 1}
    /\ index.cells[0] # IndexKey(veh[0], config)
    /\ get_nearby_vehicles(index, veh[0], veh, 1, config) = <<veh[1]>>
    /\ get_nearby_vehicles(index, veh[0], veh, 0, config) = <<>>

\* the outliers the detector has counted over all gates
RECURSIVE OutliersCounted(_)
OutliersCounted(gate_stats) ==
    IF DOMAIN gate_stats = {} THEN 0
    ELSE LET g == CHOOSE x \in DOMAIN gate_stats : TRUE
         IN gate_stats[g].outlier_count
              + OutliersCounted([x \in DOMAIN gate_stats \ {g} |-> gate_stats[x]])

\* C27: every transaction the detector finds to be an outlier of the travel
\* time (z-score above 2.0 or more than 1.5 times the mean) gets a
\* congestion alert from record_transaction, whatever the streak: a call of
\* _process_etc_transaction adds as many congestion alerts as it counts
\* outliers.
C27_AlertOnEveryOutlier ==
    [][pc = "detector" =>
         OutliersCounted(detector'.gate_stats) - OutliersCounted(detector.gate_stats)
            = CountType([i \in 1..Len(detector'.alert_history) |->
                            [type |-> detector'.alert_history[i].alert_type]],
                        "congestion")
                - CountType([i \in 1..Len(detector.alert_history) |->
                                [type |-> detector.alert_history[i].alert_type]],
                            "congestion")
      ]_vars

\* the fifth vehicle took 200 s after four that took 60 s: gate 4 has counted
\* its first outlier and the detector has returned no alert
C27_OutlierWithoutAlert ==
    /\ pc = "detector"
    /\ 4 \in DOMAIN detector.gate_stats
    /\ detector.gate_stats[4].recent_travel_times
          = <<Ds(60), Ds(60), Ds(60), Ds(60), Ds(200)>>
    /\ detector.gate_stats[4].outlier_count = 1
    /\ detector.gate_stats[4].consecutive_outliers = 1
    /\ detector.alert_history = <<>>

\* C28: every value a call of _process_etc_transaction appends to the
\* recent_travel_times of a gate is the difference of the timestamps of two
\* transactions of one vehicle, the later at that gate and the earlier at
\* another gate, copies made by the noise stage included.
C28_TravelTimeBetweenGates ==
    [][pc = "detector" =>
         \A g \in DOMAIN detector'.gate_stats :
            \A i \in 1..Len(detector'.gate_stats[g].recent_travel_times) :
               (g \in DOMAIN detector.gate_stats =>
                   i > Len(detector.gate_stats[g].recent_travel_times)) =>
                  \E a, b \in 1..Len(transactions') :
                     /\ a < b
                     /\ transactions'[a].vehicle_id = transactions'[b].vehicle_id
                     /\ transactions'[b].gate_id = g
                     /\ transactions'[a].gate_id # g
                     /\ detector'.gate_stats[g].recent_travel_times[i]
                          = transactions'[b].timestamp - transactions'[a].timestamp
      ]_vars

\* a gate holds a travel time of a tenth of a second: the time between two
\* copies of one crossing
C28_TravelTimeBetweenCopies ==
    /\ pc = "detector"
    /\ \E g \in DOMAIN detector.gate_stats :
          \E i \in 1..Len(detector.gate_stats[g].recent_travel_times) :
             detector.gate_stats[g].recent_travel_times[i] = 1
    /\ \E a, b \in 1..Len(transactions) :
          /\ a < b
          /\ transactions[a].vehicle_id = transactions[b].vehicle_id
          /\ transactions[a].gate_id = transactions[b].gate_id
          /\ transactions[b].is_duplicate
          /\ transactions[b].timestamp - transactions[a].timestamp = 1

\* the simulation tasks of connection k that have not finished
Unfinished(m, k) ==
    {i \in 1..Len(m.connections[k].session.tasks) :
        ~Finished(m.connections[k].session.tasks[i])}

\* C29: when the websocket of a connection with session id S disconnects,
\* every unfinished simulation task of that connection is stopped (its
\* session is no longer running and the task is cancelled), and any other
\* connection that is still open under the same id S with a simulation
\* running keeps its session as it was and keeps the entry of the session
\* table if it held it.
C29_DisconnectStopsOwnOnly ==
    [][pc = "sessions" =>
         \A k \in 1..Len(manager.connections) :
            (manager.connections[k].open /\ ~manager'.connections[k].open) =>
               /\ ~manager'.connections[k].session.is_running
               /\ \A i \in Unfinished(manager, k) :
                     manager'.connections[k].session.tasks[i].cancelled
               /\ \A j \in 1..Len(manager.connections) :
                     (/\ j # k
                      /\ manager.connections[j].open
                      /\ manager.connections[j].session.is_running
                      /\ manager.connections[j].session_id
                            = manager.connections[k].session_id) =>
                        /\ manager'.connections[j].session
                              = manager.connections[j].session
                        /\ (/\ manager.connections[j].session_id \in DOMAIN manager.sessions
                            /\ manager.sessions[manager.connections[j].session_id] = j) =>
                              /\ manager.connections[j].session_id \in DOMAIN manager'.sessions
                              /\ manager'.sessions[manager.connections[j].session_id] = j]_vars

\* two connections use the same session id and both started a simulation; the
\* first one has disconnected and its task is neither cancelled nor finished
\* while its session still counts as running, and the second one, still
\* open, has its task cancelled and is no longer in the session table
C29_OtherSessionStopped ==
    /\ pc = "sessions"
    /\ \E k, j \in 1..Len(manager.connections) :
          /\ k # j
          /\ manager.connections[k].session_id = manager.connections[j].session_id
          /\ ~manager.connections[k].open
          /\ manager.connections[j].open
          /\ manager.connections[j].session_id \notin DOMAIN manager.sessions
          /\ manager.connections[k].session.is_running
          /\ \E i \in Unfinished(manager, k) :
                ~manager.connections[k].session.tasks[i].cancelled
          /\ ~manager.connections[j].session.is_running
          /\ \E i \in 1..Len(manager.connections[j].session.tasks) :
                manager.connections[j].session.tasks[i].cancelled

\* C30: a vehicle without leader whose speed follows the IDM acceleration (no
\* active anomaly before or after the update) does not accelerate beyond v0:
\* the free flow acceleration a_max * (1 - (v / v0)^delta) is 0 at v0 and
\* negative above it, so after the update the speed is at most the larger of
\* the speed before and v0.
C30_FreeFlowStopsAtV0 ==
    [][(/\ pc = "lone"
        /\ veh[0].anomaly_state # "active"
        /\ veh'[0].anomaly_state # "active") =>
            veh'[0].speed <= Max(veh[0].speed,
                                 VEHICLE_TYPE_CONFIG(veh[0].vehicle_type).v0)]_vars

\* a car that entered at 110 km/h, alone on the road and never anomalous,
\* drives faster than its v0 of 120 km/h
C30_FasterThanV0 ==
    /\ pc = "lone"
    /\ veh[0].vehicle_type = "CAR"
    /\ veh[0].anomaly_type = 0
    /\ veh[0].anomaly_state = "normal"
    /\ veh[0].pos > 0
    /\ veh[0].speed > VEHICLE_TYPE_CONFIG("CAR").v0
    /\ idm_calc_acceleration(veh[0], NoVehicle, veh[0].speed) > 0

====
